---- MODULE Spec2Model ----
(***************************************************************************)
(* A model of axum-autoroute: the 'autoroute' attribute macro (its         *)
(* declaration parser, extraction-site analysis, code generation stages),  *)
(* the 'route_info!' macro and the runtime RouteInfo record.               *)
(*                                                                         *)
(* Identifiers that go through a case conversion are sequences of          *)
(* one-character strings, so that the conversion is computed and not       *)
(* assumed.  Every fallible function returns a Result record:              *)
(*   [ok |-> TRUE, val |-> v]   or   [ok |-> FALSE, err |-> message].      *)
(***************************************************************************)
EXTENDS Integers, Sequences, FiniteSets, TLC

VARIABLES
    features,       \* cargo features of the build (a set of feature names)
    item,           \* the annotated item handed to the macro
    meta_args,      \* the attribute arguments handed to the macro
    stage,          \* position inside autoroute_path_internal2
    input,          \* the AutorouteInput once built
    responses_enum, \* result of declare_responses_enum
    utoipa_path_meta, \* result of declare_utoipa_path_meta
    trait_checkers, \* result of declare_trait_checkers
    route_info,     \* result of declare_route_info
    expansion,      \* the token stream returned by the macro
    call,           \* the last use made of the expanded items
    ret,            \* what that use produced
    reads,          \* number of route_info! reads made so far
    log,            \* the trace lines of the handler invocation under way
    plan,           \* the application's chain of builder calls and the position in it
    router,         \* the AutorouteApiRouter under construction
    parts           \* what split_for_parts returned

vars == <<features, item, meta_args, stage, input, responses_enum,
          utoipa_path_meta, trait_checkers, route_info, expansion, call, ret, reads,
          log, plan, router, parts>>

pipeline_vars == <<features, item, meta_args, stage, input, responses_enum,
                   utoipa_path_meta, trait_checkers, route_info, expansion>>

router_vars == <<plan, router, parts>>

\* The value of a slot that holds nothing yet.
Nothing == [none |-> TRUE]

Ok(v) == [ok |-> TRUE, val |-> v]

\* An error is [msg, arg]: the message and the name it was formatted with.
Err(msg) == [ok |-> FALSE, err |-> [msg |-> msg, arg |-> <<>>]]

ErrWith(msg, arg) == [ok |-> FALSE, err |-> [msg |-> msg, arg |-> arg]]

\* The ? operator: an error is returned as it is, a value is handed on.
AndThen(r, F(_)) == IF r.ok THEN F(r.val) ELSE r

(***************************************************************************)
(* Bounds of the model.                                                    *)
(***************************************************************************)
MaxResponses == 2

MaxParams == 3

MaxFields == 2

MaxReads == 2

MaxAttrArgs == 3

MaxNamed == 2

MaxMetaFields == 3

MaxTuple == 3

MaxCalls == 2

MaxRoutes == 2

MaxGenerics == 2

MaxAttrs == 2

(***************************************************************************)
(* Sequence helpers.                                                       *)
(***************************************************************************)
Range(s) == {s[i] : i \in 1..Len(s)}

SeqsUpTo(S, n) == UNION {[1..k -> S] : k \in 0..n}

RECURSIVE Concat(_)
Concat(ss) == IF ss = <<>> THEN <<>> ELSE Head(ss) \o Concat(Tail(ss))

RECURSIVE JoinWith(_, _)
JoinWith(ss, sep) ==
    IF ss = <<>> THEN <<>>
    ELSE IF Len(ss) = 1 THEN ss[1]
    ELSE ss[1] \o sep \o JoinWith(Tail(ss), sep)

(***************************************************************************)
(* convert_case on identifiers (sequences of characters).                  *)
(***************************************************************************)
LowerChars == {"a", "b", "h", "r"}

UpperChars == {"A", "B", "H", "R"}

ToUpperChar(c) ==
    CASE c = "a" -> "A" [] c = "b" -> "B" [] c = "h" -> "H" [] c = "r" -> "R"
      [] OTHER -> c

ToLowerChar(c) ==
    CASE c = "A" -> "a" [] c = "B" -> "b" [] c = "H" -> "h" [] c = "R" -> "r"
      [] OTHER -> c

\* TRUE when a word boundary lies between the adjacent characters a and b:
\* a lower-case letter followed by an upper-case one.
IsBoundary(a, b) == a \in LowerChars /\ b \in UpperChars

\* Split an identifier into words: "_" delimits (and is dropped), the other
\* boundaries split between two characters; empty words are dropped.
RECURSIVE SplitWords(_, _, _)
SplitWords(s, cur, acc) ==
    IF s = <<>> THEN (IF cur = <<>> THEN acc ELSE Append(acc, cur))
    ELSE IF Head(s) = "_"
         THEN SplitWords(Tail(s), <<>>, IF cur = <<>> THEN acc ELSE Append(acc, cur))
    ELSE IF cur # <<>> /\ IsBoundary(cur[Len(cur)], Head(s))
         THEN SplitWords(Tail(s), <<Head(s)>>, Append(acc, cur))
    ELSE SplitWords(Tail(s), Append(cur, Head(s)), acc)

Words(s) == SplitWords(s, <<>>, <<>>)

UpperWord(w) == [i \in 1..Len(w) |-> ToUpperChar(w[i])]

CapitalWord(w) ==
    [i \in 1..Len(w) |-> IF i = 1 THEN ToUpperChar(w[i]) ELSE ToLowerChar(w[i])]

\* to_case(Case::Pascal)
ToPascal(s) == LET ws == Words(s) IN Concat([i \in 1..Len(ws) |-> CapitalWord(ws[i])])

\* to_case(Case::Constant)
ToConstant(s) ==
    LET ws == Words(s) IN JoinWith([i \in 1..Len(ws) |-> UpperWord(ws[i])], <<"_">>)

(***************************************************************************)
(* Tokens of the attribute arguments.  A token is a record                 *)
(* [kind, text, num, list]; kind is "ident", "int", "str", "bool",         *)
(* "path" (a qualified path a::b, text is its first segment), "list"       *)
(* (a bracketed list, its entries in list) or "none" (no token there).     *)
(***************************************************************************)
Tok(k, t, n, l) == [kind |-> k, text |-> t, num |-> n, list |-> l]

Ident(t) == Tok("ident", t, 0, <<>>)

IntLit(n) == Tok("int", "", n, <<>>)

Str(t) == Tok("str", t, 0, <<>>)

Bool(b) == Tok("bool", IF b THEN "true" ELSE "false", 0, <<>>)

QPath(t) == Tok("path", t, 0, <<>>)

List(l) == Tok("list", "", 0, l)

NoTok == Tok("none", "", 0, <<>>)

\* input.parse::<Ident>() succeeds on an identifier, and on the first
\* segment of a qualified path.
ParsesAsIdent(t) == t.kind \in {"ident", "path"}

(***************************************************************************)
(* utils/http.rs: the method and status catalogs and their parsers.        *)
(***************************************************************************)
HttpMethod == {"GET", "POST", "DELETE", "PUT", "PATCH", "CONNECT", "OPTIONS", "HEAD", "TRACE"}

ParseMethod(t) ==
    IF t.kind = "ident" /\ t.text \in HttpMethod
    THEN Ok(t.text)
    ELSE Err("unexpected method, should be one of: GET, POST, DELETE, PUT, PATCH, CONNECT, OPTIONS, HEAD, TRACE")

\* The part of the status catalog the model uses: variant, numeric value
\* and SCREAMING_SNAKE_CASE spelling.
HttpStatusCode ==
    { [variant |-> "Ok",                  code |-> 200, name |-> "OK"],
      [variant |-> "Created",             code |-> 201, name |-> "CREATED"],
      [variant |-> "BadRequest",          code |-> 400, name |-> "BAD_REQUEST"],
      [variant |-> "NotFound",            code |-> 404, name |-> "NOT_FOUND"],
      [variant |-> "NotAcceptable",       code |-> 406, name |-> "NOT_ACCEPTABLE"],
      [variant |-> "ImATeapot",           code |-> 418, name |-> "IM_A_TEAPOT"],
      [variant |-> "InternalServerError", code |-> 500, name |-> "INTERNAL_SERVER_ERROR"] }

StatusVariants == {sc.variant : sc \in HttpStatusCode}

\* from_str accepting the name of the variant as well.
StatusFromStrOrVariant(text) ==
    {sc.variant : sc \in {x \in HttpStatusCode : x.name = text \/ x.variant = text}}

\* HttpStatusCode::from_str (strum EnumString)
StatusFromStr(text) == {sc.variant : sc \in {x \in HttpStatusCode : x.name = text}}

\* HttpStatusCode::from_repr (strum FromRepr)
StatusFromRepr(n) == {sc.variant : sc \in {x \in HttpStatusCode : x.code = n}}

\* as_code giving the class of the status (its hundreds).
as_code_class(variant) == ((CHOOSE sc \in HttpStatusCode : sc.variant = variant).code \div 100) * 100

as_code(variant) == (CHOOSE sc \in HttpStatusCode : sc.variant = variant).code

StatusToString(variant) == (CHOOSE sc \in HttpStatusCode : sc.variant = variant).name

U16Max == 65535

StatusError == "unexpected status code, should be a numeric status code or a constant as described in https://docs.rs/http/latest/http/status/struct.StatusCode.html"

\* ParseStatus with the numeric lookup off by one entry.
ParseStatusShifted(t) ==
    IF ParsesAsIdent(t)
    THEN IF t.kind = "ident" /\ StatusFromStr(t.text) # {}
         THEN Ok(CHOOSE v \in StatusFromStr(t.text) : TRUE)
         ELSE Err(StatusError)
    ELSE IF t.kind = "int"
    THEN IF StatusFromRepr(t.num + 1) # {}
         THEN Ok(CHOOSE v \in StatusFromRepr(t.num + 1) : TRUE)
         ELSE Err(StatusError)
    ELSE Err(StatusError)

ParseStatus(t) ==
    IF ParsesAsIdent(t)
    THEN IF t.kind = "ident" /\ StatusFromStr(t.text) # {}
         THEN Ok(CHOOSE v \in StatusFromStr(t.text) : TRUE)
         ELSE Err(StatusError)
    ELSE IF t.kind = "int"
    THEN IF t.num > U16Max
         THEN Err("number too large to fit in target type")
         ELSE IF StatusFromRepr(t.num) # {}
              THEN Ok(CHOOSE v \in StatusFromRepr(t.num) : TRUE)
              ELSE Err(StatusError)
    ELSE Err(StatusError)

(***************************************************************************)
(* utils/mime.rs                                                           *)
(***************************************************************************)
KnownMimes ==
    { [name |-> "TEXT_PLAIN",               mime |-> "text/plain"],
      [name |-> "APPLICATION_JSON",         mime |-> "application/json"],
      [name |-> "APPLICATION_OCTET_STREAM", mime |-> "application/octet-stream"],
      [name |-> "MULTIPART_FORM_DATA",      mime |-> "multipart/form-data"] }

\* Mime::from_str of the mime crate accepts type/subtype[;params] strings;
\* these are the well-formed strings the model draws from.
WellFormedMimes == {"text/plain", "application/json", "application/pdf", "image/png"}

MimeError == "unexpected mime type, should be a string or one of the constant defined in https://docs.rs/mime/latest/mime/index.html"

parse_mime(t) ==
    IF ParsesAsIdent(t)
    THEN IF t.kind = "ident" /\ \E km \in KnownMimes : km.name = t.text
         THEN Ok((CHOOSE km \in KnownMimes : km.name = t.text).mime)
         ELSE Err(MimeError)
    ELSE IF t.kind = "str"
    THEN IF t.text \in WellFormedMimes THEN Ok(t.text) ELSE Err("invalid mime string")
    ELSE Err(MimeError)

\* The header catalog (KNOWN_HTTP_HEADERS), upper-snake symbol and the
\* kebab-case field name it converts to.
KnownHttpHeaders ==
    { [symbol |-> "SET_COOKIE",          name |-> "set-cookie"],
      [symbol |-> "CONTENT_DISPOSITION", name |-> "content-disposition"],
      [symbol |-> "CONTENT_ENCODING",    name |-> "content-encoding"] }

HeaderError == "unexpected header name, should be one of the constant defined in https://docs.rs/http/latest/http/header/index.html"

parse_header_name(t) ==
    IF t.kind = "ident" /\ \E h \in KnownHttpHeaders : h.symbol = t.text
    THEN Ok((CHOOSE h \in KnownHttpHeaders : h.symbol = t.text).name)
    ELSE Err(HeaderError)

(***************************************************************************)
(* Types as syn sees them: [kind, name, args].  kind "path": a type path   *)
(* whose last segment is 'name' with generic arguments 'args'; "tuple":    *)
(* its elements in args; "paren": the inner type in args; "other": any     *)
(* other type (a reference, a slice ...); "none": no type could be parsed. *)
(***************************************************************************)
Ty(k, n, a) == [kind |-> k, name |-> n, args |-> a]

TyPath(n) == Ty("path", n, <<>>)

TyGeneric(n, a) == Ty("path", n, a)

TyTuple(a) == Ty("tuple", "", a)

TyParen(t) == Ty("paren", "", <<t>>)

TyOther == Ty("other", "", <<>>)

NoTy == Ty("none", "", <<>>)

Some(v) == [some |-> TRUE, v |-> v]

None(dflt) == [some |-> FALSE, v |-> dflt]

(***************************************************************************)
(* args/responses.rs                                                       *)
(***************************************************************************)
\* split_into_body_and_parts taking the first element for the body.
split_first_as_body(ty) ==
    IF ty.kind = "tuple"
    THEN IF Len(ty.args) > 0
         THEN Ok([body |-> ty.args[1], parts |-> SubSeq(ty.args, 2, Len(ty.args))])
         ELSE Err("unexpected empty tuple type")
    ELSE IF ty.kind = "paren"
    THEN Ok([body |-> ty.args[1], parts |-> <<>>])
    ELSE Ok([body |-> ty, parts |-> <<>>])

\* Result: [body, parts]
split_into_body_and_parts(ty) ==
    IF ty.kind = "tuple"
    THEN IF Len(ty.args) > 0
         THEN Ok([body |-> ty.args[Len(ty.args)], parts |-> SubSeq(ty.args, 1, Len(ty.args) - 1)])
         ELSE Err("unexpected empty tuple type")
    ELSE IF ty.kind = "paren"
    THEN Ok([body |-> ty.args[1], parts |-> <<>>])
    ELSE Ok([body |-> ty, parts |-> <<>>])

AutorouteResponseKey == {"content_type", "serializer", "headers", "description", "trace"}

ResponseKeyError == "expected one of: content_type, serializer, headers, description, trace"

SerializerDefault == [kind |-> "Default", path |-> ""]

SerializerNone == [kind |-> "None", path |-> ""]

SerializerPath(p) == [kind |-> "Path", path |-> p]

\* impl Parse for AutorouteResponseSerializer, NONE taken for no keyword.
ParseSerializerNoneIgnored(t) ==
    IF t.kind \in {"ident", "path"}
    THEN Ok(SerializerPath(t.text))
    ELSE Err("serializer should be either 'None' or a path to a serializing type (like 'axum::Json'), function or closure")

\* impl Parse for AutorouteResponseSerializer
ParseSerializer(t) ==
    IF t.kind = "ident" /\ t.text = "NONE"
    THEN Ok(SerializerNone)
    ELSE IF t.kind \in {"ident", "path"}
    THEN Ok(SerializerPath(t.text))
    ELSE Err("serializer should be either 'None' or a path to a serializing type (like 'axum::Json'), function or closure")

\* impl Parse for AutorouteResponseHeader; an entry is [name, description].
ParseResponseHeader(h) ==
    AndThen(parse_header_name(h.name), LAMBDA name :
        IF h.description.kind = "none"
        THEN Ok([header_name |-> name, description |-> None("")])
        ELSE IF h.description.kind = "str"
        THEN Ok([header_name |-> name, description |-> Some(h.description.text)])
        ELSE Err("expected string literal"))

\* The headers list, entry after entry, stopping at the first error
\* (Punctuated::parse_terminated).
RECURSIVE ParseHeaders(_, _)
ParseHeaders(entries, acc) ==
    IF entries = <<>> THEN Ok(acc)
    ELSE AndThen(ParseResponseHeader(Head(entries)), LAMBDA h :
            ParseHeaders(Tail(entries), Append(acc, h)))

\* One turn of the loop over the optional named fields of a response
\* (lines 132-162): the field assigns its slot, in the order written.
\* One named field of a response: the slot it assigns in acc.
ParseResponseField(f, acc) ==
    IF ~(f.key.kind = "ident" /\ f.key.text \in AutorouteResponseKey)
    THEN Err(ResponseKeyError)
    ELSE CASE f.key.text = "content_type" ->
              AndThen(parse_mime(f.val), LAMBDA m : Ok([acc EXCEPT !.content_type = Some(m)]))
           [] f.key.text = "serializer" ->
              AndThen(ParseSerializer(f.val), LAMBDA z : Ok([acc EXCEPT !.serializer = z]))
           [] f.key.text = "headers" ->
              IF f.val.kind # "list" THEN Err("expected square brackets")
              ELSE AndThen(ParseHeaders(f.val.list, <<>>), LAMBDA hs :
                      Ok([acc EXCEPT !.headers = hs]))
           [] f.key.text = "description" ->
              IF f.val.kind = "str"
              THEN Ok([acc EXCEPT !.description = Some(f.val.text)])
              ELSE Err("expected string literal")
           [] OTHER ->
              IF f.val.kind = "bool"
              THEN Ok([acc EXCEPT !.do_trace = (f.val.text = "true")])
              ELSE Err("expected boolean literal")

RECURSIVE ParseResponseFields(_, _)
ParseResponseFields(fields, acc) ==
    IF fields = <<>> THEN Ok(acc)
    ELSE AndThen(ParseResponseField(Head(fields), acc), LAMBDA next :
            ParseResponseFields(Tail(fields), next))

\* impl Parse for AutorouteResponse.  An entry is
\* [status, body_key, body, named]: the status token, the identifier
\* written where 'body' is expected, the type after '=', and the named
\* fields [key, val] in the order written.
ParseResponse(e) ==
    AndThen(ParseStatus(e.status), LAMBDA st :
        IF ~(e.body_key.kind = "ident" /\ e.body_key.text = "body")
        THEN Err("expected ident 'body'")
        ELSE IF e.body.kind = "none"
        THEN Err("expected a type")
        ELSE AndThen(split_into_body_and_parts(e.body), LAMBDA bp :
                ParseResponseFields(e.named,
                    [status_code  |-> st,
                     body         |-> bp.body,
                     parts        |-> bp.parts,
                     content_type |-> None(""),
                     serializer   |-> SerializerDefault,
                     headers      |-> <<>>,
                     description  |-> None(""),
                     do_trace     |-> TRUE])))

RECURSIVE ParseResponses(_, _)
ParseResponses(entries, acc) ==
    IF entries = <<>> THEN Ok(acc)
    ELSE AndThen(ParseResponse(Head(entries)), LAMBDA r :
            ParseResponses(Tail(entries), Append(acc, r)))

(***************************************************************************)
(* args/mod.rs: the attribute arguments.  meta_args is                     *)
(* [method, path_key, path, named]: the first token, the identifier        *)
(* written where 'path' is expected, the token after '=', and the named    *)
(* fields [key, val] in the order written.                                 *)
(***************************************************************************)
AutorouteMetaKey == {"responses", "tags"}

MetaKeyError == "expected one of: responses, tags"

RECURSIVE ParseTags(_, _)
ParseTags(entries, acc) ==
    IF entries = <<>> THEN Ok(acc)
    ELSE IF Head(entries).kind = "str"
    THEN ParseTags(Tail(entries), Append(acc, Head(entries).text))
    ELSE Err("expected string literal")

\* ParseMetaField with a repeated argument replacing the earlier one.
ParseMetaFieldLastWins(f, acc) ==
    IF ~(f.key.kind = "ident" /\ f.key.text \in AutorouteMetaKey)
    THEN Err(MetaKeyError)
    ELSE IF f.key.text = "responses"
    THEN IF f.val.kind # "list" THEN Err("expected square brackets")
         ELSE AndThen(ParseResponses(f.val.list, <<>>), LAMBDA rs :
                 IF rs = <<>> THEN Err("at least one response is required")
                 ELSE Ok([acc EXCEPT !.responses = Some(rs)]))
    ELSE IF f.val.kind # "list" THEN Err("expected square brackets")
         ELSE AndThen(ParseTags(f.val.list, <<>>), LAMBDA ts :
                 Ok([acc EXCEPT !.tags = Some(ts)]))

\* One turn of the loop over the unordered named arguments (lines 80-118).
\* One named argument: the slot it assigns in acc = [responses, tags].
ParseMetaField(f, acc) ==
    IF ~(f.key.kind = "ident" /\ f.key.text \in AutorouteMetaKey)
    THEN Err(MetaKeyError)
    ELSE IF f.key.text = "responses"
    THEN IF acc.responses.some THEN Err("responses already defined")
         ELSE IF f.val.kind # "list" THEN Err("expected square brackets")
         ELSE AndThen(ParseResponses(f.val.list, <<>>), LAMBDA rs :
                 IF rs = <<>> THEN Err("at least one response is required")
                 ELSE Ok([acc EXCEPT !.responses = Some(rs)]))
    ELSE IF acc.tags.some THEN Err("tags already defined")
         ELSE IF f.val.kind # "list" THEN Err("expected square brackets")
         ELSE AndThen(ParseTags(f.val.list, <<>>), LAMBDA ts :
                 Ok([acc EXCEPT !.tags = Some(ts)]))

\* A comma with no named argument behind it.
OnlyComma == [key |-> NoTok, val |-> NoTok]

\* The loop over the named arguments: each turn parses a comma, stops when
\* nothing follows it (the trailing comma), and parses one argument
\* otherwise.
RECURSIVE ParseMetaFields(_, _)
ParseMetaFields(fields, acc) ==
    IF fields = <<>> THEN Ok(acc)
    ELSE IF Head(fields) = OnlyComma /\ Tail(fields) = <<>> THEN Ok(acc)
    ELSE AndThen(ParseMetaField(Head(fields), acc), LAMBDA next :
            ParseMetaFields(Tail(fields), next))

\* impl Parse for AutorouteMeta
ParseMeta(m) ==
    AndThen(ParseMethod(m.method), LAMBDA method :
        IF ~(m.path_key.kind = "ident" /\ m.path_key.text = "path")
        THEN Err("expected ident 'path'")
        ELSE IF m.path.kind # "str" THEN Err("expected string literal")
        ELSE AndThen(ParseMetaFields(m.named, [responses |-> None(<<>>), tags |-> None(<<>>)]),
                LAMBDA fs :
                    IF ~fs.responses.some THEN Err("no responses defined")
                    ELSE Ok([method    |-> method,
                             path      |-> m.path.text,
                             responses |-> fs.responses.v,
                             tags      |-> IF fs.tags.some THEN fs.tags.v ELSE <<>>])))

(***************************************************************************)
(* The annotated function.  item is                                        *)
(* [parses, vis, ident, inputs, output, block]; parses is FALSE when the   *)
(* item is not a function.  A parameter is [receiver, attrs, pat, ty]; an  *)
(* attribute is [path, is_list, args], args being [key, val] pairs.  A     *)
(* pattern is [kind, ident, sub].  The return type is [kind, ident]:       *)
(* "default" (none written), "ident" (a type path that is one bare         *)
(* identifier), "path" (any other type path), "other" (not a type path).   *)
(***************************************************************************)
Pat(k, i, sub) == [kind |-> k, ident |-> i, sub |-> sub]

PatIdent(i) == Pat("ident", i, <<>>)

PatWild == Pat("wild", "", <<>>)

(***************************************************************************)
(* args/extractor_attr.rs                                                  *)
(***************************************************************************)
Unstable == "unstable_extractor_attr" \in features

Tracing == "tracing" \in features

ExtractorAttrKey == IF Unstable THEN {"content_type", "into_params", "trace"} ELSE {"trace"}

ExtractorKeyError ==
    IF Unstable THEN "expected one of: content_type, into_params, trace"
    ELSE "expected one of: trace"

Unspecified == [kind |-> "Unspecified", into_params |-> FALSE, content_types |-> <<>>]

PartsExtractor(b) == [kind |-> "PartsExtractor", into_params |-> b, content_types |-> <<>>]

BodyExtractor(cts) == [kind |-> "BodyExtractor", into_params |-> FALSE, content_types |-> cts]

ExtractorAttrDefault == [do_trace |-> None(FALSE), variant |-> Unspecified]

\* ParseExtractorAttrArg with the later of content_type and into_params
\* replacing the earlier.
ParseExtractorAttrArgLastWins(a, acc) ==
    IF ~(a.key.kind = "ident" /\ a.key.text \in ExtractorAttrKey)
    THEN Err(ExtractorKeyError)
    ELSE CASE a.key.text = "trace" ->
              IF a.val.kind = "bool"
              THEN Ok([acc EXCEPT !.do_trace = Some(a.val.text = "true")])
              ELSE Err("expected boolean literal")
           [] a.key.text = "into_params" ->
              IF a.val.kind # "bool" THEN Err("expected boolean literal")
              ELSE Ok([acc EXCEPT !.variant = PartsExtractor(a.val.text = "true")])
           [] OTHER ->
              AndThen(parse_mime(a.val), LAMBDA m :
                  Ok([acc EXCEPT !.variant = BodyExtractor(<<m>>)]))

\* One key = value pair of an extractor attribute.
ParseExtractorAttrArg(a, acc) ==
    IF ~(a.key.kind = "ident" /\ a.key.text \in ExtractorAttrKey)
    THEN Err(ExtractorKeyError)
    ELSE CASE a.key.text = "trace" ->
              IF a.val.kind = "bool"
              THEN Ok([acc EXCEPT !.do_trace = Some(a.val.text = "true")])
              ELSE Err("expected boolean literal")
           [] a.key.text = "into_params" ->
              IF a.val.kind # "bool" THEN Err("expected boolean literal")
              ELSE IF acc.variant.kind = "BodyExtractor"
              THEN Err("into_params cannot be defined in an extractor attribute containing content_type")
              ELSE Ok([acc EXCEPT !.variant = PartsExtractor(a.val.text = "true")])
           [] OTHER ->
              AndThen(parse_mime(a.val), LAMBDA m :
                  IF acc.variant.kind = "PartsExtractor"
                  THEN Err("content_type cannot be defined in an extractor attribute containing into_params")
                  ELSE Ok([acc EXCEPT !.variant =
                              BodyExtractor(Append(acc.variant.content_types, m))]))

\* impl Parse for ExtractorAttr: the loop over the key = value pairs.
RECURSIVE ParseExtractorAttr(_, _)
ParseExtractorAttr(args, acc) ==
    IF args = <<>> THEN Ok(acc)
    ELSE AndThen(ParseExtractorAttrArg(Head(args), acc), LAMBDA next :
            ParseExtractorAttr(Tail(args), next))

EXTRACTOR_ATTR_PATHS == {"extractor", "autoroute_extractor"}

as_extractor_attr(attr) == attr.is_list /\ attr.path \in EXTRACTOR_ATTR_PATHS

\* ExtractorAttr::parse_fn_arg: the first extractor attribute decides.
RECURSIVE AttrParseFnArg(_)
AttrParseFnArg(attrs) ==
    IF attrs = <<>> THEN Ok(ExtractorAttrDefault)
    ELSE IF as_extractor_attr(Head(attrs))
    THEN ParseExtractorAttr(Head(attrs).args, ExtractorAttrDefault)
    ELSE AttrParseFnArg(Tail(attrs))

AttrIsPartsExtractor(attr) == ~(Unstable /\ attr.variant.kind = "BodyExtractor")

\* to_trace tracing a site whose attribute says nothing.
AttrToTraceByDefault(attr) ==
    IF attr.do_trace.some THEN attr.do_trace.v
    ELSE IF Unstable
    THEN CASE attr.variant.kind = "PartsExtractor" -> attr.variant.into_params
           [] attr.variant.kind = "BodyExtractor" -> TRUE
           [] OTHER -> TRUE
    ELSE TRUE

AttrToTrace(attr) ==
    IF attr.do_trace.some THEN attr.do_trace.v
    ELSE IF Unstable
    THEN CASE attr.variant.kind = "PartsExtractor" -> attr.variant.into_params
           [] attr.variant.kind = "BodyExtractor" -> TRUE
           [] OTHER -> FALSE
    ELSE FALSE

AttrToAddInParams(attr) ==
    Unstable /\ attr.variant.kind = "PartsExtractor" /\ attr.variant.into_params

\* content_types keeping the content_type written first only.
AttrContentTypesFirstOnly(attr) ==
    IF Unstable /\ attr.variant.kind = "BodyExtractor"
    THEN SubSeq(attr.variant.content_types, 1, 1) ELSE <<>>

AttrContentTypes(attr) ==
    IF Unstable /\ attr.variant.kind = "BodyExtractor" THEN attr.variant.content_types ELSE <<>>

(***************************************************************************)
(* args/extractors.rs                                                      *)
(***************************************************************************)
KnownExtractors ==
    { [name |-> "Json",           ty |-> "JsonBody"],
      [name |-> "Body",           ty |-> "RawBody"],
      [name |-> "TypedMultipart", ty |-> "TypedMultipartBody"],
      [name |-> "Path",           ty |-> "PathParam"],
      [name |-> "Query",          ty |-> "QueryParam"] }

\* AutorouteAxumExtractorType::from_str(..).unwrap_or(Unknown { ty })
ExtractorTypeOf(last_segment) ==
    IF \E k \in KnownExtractors : k.name = last_segment
    THEN [kind |-> (CHOOSE k \in KnownExtractors : k.name = last_segment).ty, ty |-> last_segment]
    ELSE [kind |-> "Unknown", ty |-> last_segment]

VarError == "unable to determine extractor variable: unexpected extractor pattern, there should be a named variable and if a destructuring pattern is used it should contain a single variable which cannot be a nested destructuring pattern"

extractor_var_from_pat_ident(pat) ==
    IF pat.kind = "ident" THEN Ok(pat.ident) ELSE Err(VarError)

detect_extractor_var_from_pat_iter(it) ==
    IF Len(it) # 1
    THEN Err("unexpected destructuring pattern, should have a single element")
    ELSE extractor_var_from_pat_ident(it[1])

\* detect_extractor_var taking the first field of any destructuring.
detect_extractor_var_first_field(fnvarpat) ==
    CASE fnvarpat.kind \in {"reference", "type"} -> extractor_var_from_pat_ident(fnvarpat.sub[1])
      [] fnvarpat.kind \in {"struct", "tuple", "tuple_struct"} ->
            IF fnvarpat.sub = <<>> THEN Err(VarError)
            ELSE extractor_var_from_pat_ident(fnvarpat.sub[1])
      [] OTHER -> extractor_var_from_pat_ident(fnvarpat)

detect_extractor_var(fnvarpat) ==
    CASE fnvarpat.kind \in {"reference", "type"} -> extractor_var_from_pat_ident(fnvarpat.sub[1])
      [] fnvarpat.kind \in {"struct", "tuple", "tuple_struct"} ->
            detect_extractor_var_from_pat_iter(fnvarpat.sub)
      [] OTHER -> extractor_var_from_pat_ident(fnvarpat)

IsKnown(extractor) == extractor.extractor_ty.kind # "Unknown"

\* validate accepting every attribute on every extractor.
validate_nothing(extractor) == Ok(extractor)

validate(extractor) ==
    IF Unstable /\ IsKnown(extractor)
    THEN CASE extractor.attr.variant.kind = "PartsExtractor" ->
                 Err("into_params cannot be defined on a known extractor type (Json, Body, TypedMultipart, Path, Query)")
           [] extractor.attr.variant.kind = "BodyExtractor" ->
                 Err("content_type cannot be defined on a known extractor type (Json, Body, TypedMultipart, Path, Query)")
           [] OTHER -> Ok(extractor)
    ELSE Ok(extractor)

\* parse_fn_arg taking a type path with any generic arguments.
parse_fn_arg_any_generics(fnarg) ==
    IF fnarg.ty.kind # "path" THEN Err("should be a type path")
    ELSE AndThen(detect_extractor_var(fnarg.pat), LAMBDA var :
         AndThen(AttrParseFnArg(fnarg.attrs), LAMBDA attr :
            validate([extracted_var |-> var,
                      full_ty       |-> fnarg.ty,
                      extractor_ty  |-> ExtractorTypeOf(fnarg.ty.name),
                      extracted_ty  |-> IF Len(fnarg.ty.args) = 1 THEN fnarg.ty.args[1] ELSE fnarg.ty,
                      attr          |-> attr])))

\* Parse a single extractor argument.  A generic argument that is not a
\* type (GenericArgument::Lifetime) is an argument of kind "lifetime".
parse_fn_arg(fnarg) ==
    IF fnarg.ty.kind # "path" THEN Err("should be a type path")
    ELSE IF Len(fnarg.ty.args) > 0 /\ Len(fnarg.ty.args) # 1
    THEN Err("only axum extractors with a single generic argument are currently supported")
    ELSE IF Len(fnarg.ty.args) = 1 /\ fnarg.ty.args[1].kind = "lifetime"
    THEN Err("axum extractor generic argument should be a type")
    ELSE AndThen(detect_extractor_var(fnarg.pat), LAMBDA var :
         AndThen(AttrParseFnArg(fnarg.attrs), LAMBDA attr :
            validate([extracted_var |-> var,
                      full_ty       |-> fnarg.ty,
                      extractor_ty  |-> ExtractorTypeOf(fnarg.ty.name),
                      extracted_ty  |-> IF Len(fnarg.ty.args) = 1 THEN fnarg.ty.args[1] ELSE fnarg.ty,
                      attr          |-> attr])))

RECURSIVE ParseManyFrom(_, _)
ParseManyFrom(inputs, extractors) ==
    IF inputs = <<>> THEN Ok(extractors)
    ELSE IF Head(inputs).receiver THEN Err("expected a typed function argument")
    ELSE AndThen(parse_fn_arg(Head(inputs)), LAMBDA e :
            ParseManyFrom(Tail(inputs), Append(extractors, e)))

parse_many(itemfn) == ParseManyFrom(itemfn.inputs, <<>>)

is_parts_extractor(extractor) ==
    CASE extractor.extractor_ty.kind = "Unknown" -> AttrIsPartsExtractor(extractor.attr)
      [] extractor.extractor_ty.kind \in {"JsonBody", "RawBody", "TypedMultipartBody"} -> FALSE
      [] OTHER -> TRUE

content_types(extractor) ==
    CASE extractor.extractor_ty.kind = "JsonBody" -> Ok(<<"application/json">>)
      [] extractor.extractor_ty.kind = "RawBody" -> Ok(<<"application/octet-stream">>)
      [] extractor.extractor_ty.kind = "TypedMultipartBody" -> Ok(<<"multipart/form-data">>)
      [] extractor.extractor_ty.kind = "Unknown" /\ AttrContentTypes(extractor.attr) # <<>> ->
            Ok(AttrContentTypes(extractor.attr))
      [] OTHER -> Err("INTERNAL_MACRO_ERROR: no default content_type implemented")

to_trace(extractor) ==
    IF extractor.extractor_ty.kind = "Unknown" THEN AttrToTrace(extractor.attr) ELSE TRUE

\* to_add_in_params documenting every parts extractor.
to_add_in_params_all_parts(extractor) == is_parts_extractor(extractor)

to_add_in_params(extractor) ==
    IF extractor.extractor_ty.kind = "Unknown"
    THEN AttrToAddInParams(extractor.attr)
    ELSE is_parts_extractor(extractor)

openapi_content(extractor) ==
    CASE extractor.extractor_ty.kind = "RawBody" -> Ok(Ty("other", "[u8]", <<>>))
      [] extractor.extractor_ty.kind \in {"JsonBody", "TypedMultipartBody", "Unknown"} ->
            Ok(extractor.extracted_ty)
      [] OTHER -> Err("INTERNAL_MACRO_ERROR: no default content implemented")

\* AutorouteInput::build: the function, then the arguments, then the
\* extractors; the first failure is the result.
build(meta, it) ==
    IF ~it.parses THEN Err("expected 'fn'")
    ELSE AndThen(ParseMeta(meta), LAMBDA m :
         AndThen(parse_many(it), LAMBDA es :
            Ok([meta |-> m, axum_extractors |-> es, itemfn |-> it])))

(***************************************************************************)
(* codegen/responses.rs: the generated responses enum.                     *)
(***************************************************************************)
ResponsesSuffix == <<"R", "e", "s", "p", "o", "n", "s", "e", "s">>

\* Name of the responses enum of a handler.
responses_enum_name(inp) == ToPascal(inp.itemfn.ident) \o ResponsesSuffix

responses_enum_ident(inp) == responses_enum_name(inp)

HasDuplicatedStatus(responses) ==
    \E i, j \in 1..Len(responses) : i < j /\ responses[i].status_code = responses[j].status_code

\* One variant per declared response, named after the status, carrying the
\* parts types and the body type, with the serializer applied to the body.
VariantOf(resp) ==
    [name       |-> resp.status_code,
     status     |-> as_code(resp.status_code),
     parts      |-> resp.parts,
     body       |-> resp.body,
     serializer |-> resp.serializer,
     do_trace   |-> resp.do_trace]

declare_responses_enum(inp) ==
    IF HasDuplicatedStatus(inp.meta.responses)
    THEN Err("duplicated status")
    ELSE Ok([name     |-> responses_enum_name(inp),
             variants |-> [i \in 1..Len(inp.meta.responses) |-> VariantOf(inp.meta.responses[i])]])

(***************************************************************************)
(* codegen/utoipa.rs                                                       *)
(***************************************************************************)
ToLowercase(method) ==
    CASE method = "GET" -> "get" [] method = "POST" -> "post" [] method = "DELETE" -> "delete"
      [] method = "PUT" -> "put" [] method = "PATCH" -> "patch" [] method = "CONNECT" -> "connect"
      [] method = "OPTIONS" -> "options" [] method = "HEAD" -> "head" [] OTHER -> "trace"

\* set_request_body overwriting an earlier request body.
set_request_body_overwrite(target, value) == Ok(Some(value))

set_request_body(target, value) ==
    IF target.some
    THEN Err("multiple extractors consuming the body are defined")
    ELSE Ok(Some(value))

NoRequestBody == None([content |-> NoTy, content_types |-> <<>>])

\* One turn of the loop over the extractors (lines 22-38); acc is
\* [request_body, params].
UtoipaExtractor(extractor, acc) ==
    IF is_parts_extractor(extractor)
    THEN Ok(IF to_add_in_params(extractor)
            THEN [acc EXCEPT !.params = Append(@, extractor.extracted_ty)]
            ELSE acc)
    ELSE AndThen(content_types(extractor), LAMBDA cts :
         AndThen(openapi_content(extractor), LAMBDA content :
         AndThen(set_request_body(acc.request_body, [content |-> content, content_types |-> cts]),
            LAMBDA rb : Ok([acc EXCEPT !.request_body = rb]))))

RECURSIVE UtoipaExtractors(_, _)
UtoipaExtractors(extractors, acc) ==
    IF extractors = <<>> THEN Ok(acc)
    ELSE AndThen(UtoipaExtractor(Head(extractors), acc), LAMBDA next :
            UtoipaExtractors(Tail(extractors), next))

\* The response documented with its parts in front of its body.
UtoipaResponseWithParts(resp) ==
    [status       |-> StatusToString(resp.status_code),
     body         |-> IF resp.parts = <<>> THEN resp.body ELSE TyTuple(resp.parts \o <<resp.body>>),
     content_type |-> resp.content_type,
     description  |-> resp.description,
     headers      |-> resp.headers]

\* One entry of responses(...): content_type and description are there when
\* Some, headers(...) when the list is not empty.
UtoipaResponse(resp) ==
    [status       |-> StatusToString(resp.status_code),
     body         |-> resp.body,
     content_type |-> resp.content_type,
     description  |-> resp.description,
     headers      |-> resp.headers]

declare_utoipa_path_meta(inp) ==
    AndThen(UtoipaExtractors(inp.axum_extractors, [request_body |-> NoRequestBody, params |-> <<>>]),
        LAMBDA ex :
            Ok([method       |-> ToLowercase(inp.meta.method),
                path         |-> inp.meta.path,
                tags         |-> inp.meta.tags,
                request_body |-> ex.request_body,
                responses    |-> [i \in 1..Len(inp.meta.responses) |-> UtoipaResponse(inp.meta.responses[i])],
                params       |-> ex.params]))

(***************************************************************************)
(* codegen/trait_checkers.rs                                               *)
(***************************************************************************)
\* declare_trait_checkers classifying by the name of the extractor alone.
declare_trait_checkers_by_name(inp) ==
    [i \in 1..Len(inp.axum_extractors) |->
        [handler   |-> ToPascal(inp.itemfn.ident),
         index     |-> i - 1,
         full_type |-> inp.axum_extractors[i].full_ty,
         bound     |-> IF inp.axum_extractors[i].extractor_ty.kind \in {"JsonBody", "RawBody", "TypedMultipartBody"}
                       THEN "FromRequest" ELSE "FromRequestParts"]]

\* One dummy struct per extractor, bounded by the trait its kind requires;
\* the struct is named _<Handler>TraitChecker<i><Trait>, i counted from 0.
declare_trait_checkers(inp) ==
    [i \in 1..Len(inp.axum_extractors) |->
        [handler   |-> ToPascal(inp.itemfn.ident),
         index     |-> i - 1,
         full_type |-> inp.axum_extractors[i].full_ty,
         bound     |-> IF is_parts_extractor(inp.axum_extractors[i])
                       THEN "FromRequestParts" ELSE "FromRequest"]]

(***************************************************************************)
(* codegen/route_info.rs                                                   *)
(***************************************************************************)
RouteInfoSuffix == <<"_", "R", "O", "U", "T", "E", "_", "I", "N", "F", "O">>

\* Name of the RouteInfo constant
route_info_name(handler_name) == ToConstant(handler_name) \o RouteInfoSuffix

route_info_ident(inp) == route_info_name(inp.itemfn.ident)

\* RouteInfo::new (lib/src/route_info.rs)
RouteInfoNew(method, path) == [method |-> method, path |-> path]

\* declare_route_info recording the method as the documentation spells it.
declare_route_info_lowercase(inp) ==
    [vis   |-> inp.itemfn.vis,
     name  |-> route_info_ident(inp),
     value |-> RouteInfoNew(ToLowercase(inp.meta.method), inp.meta.path)]

declare_route_info(inp) ==
    [vis   |-> inp.itemfn.vis,
     name  |-> route_info_ident(inp),
     value |-> RouteInfoNew(inp.meta.method, inp.meta.path)]

(***************************************************************************)
(* codegen/tracing.rs                                                      *)
(***************************************************************************)
\* The statements add_inputs_tracing puts in front of the handler body.
InputTracingStmts(inp) ==
    LET traced == SelectSeq(inp.axum_extractors, to_trace) IN
    <<[kind |-> "debug", msg |-> "triggered", label |-> "", var |-> "", handler |-> inp.itemfn.ident]>>
    \o [i \in 1..Len(traced) |->
          [kind    |-> "debug",
           msg     |-> "* {}: {:?}",
           label   |-> traced[i].extractor_ty.ty,
           var     |-> traced[i].extracted_var,
           handler |-> inp.itemfn.ident]]

\* add_inputs_tracing putting the statements at the end of the block.
add_inputs_tracing_at_end(inp) ==
    [inp EXCEPT !.itemfn.block = @ \o InputTracingStmts(inp)]

add_inputs_tracing(inp) ==
    [inp EXCEPT !.itemfn.block = InputTracingStmts(inp) \o @]

\* output_tracing tracing the payload whatever the trace flag.
output_tracing_payload_always(inp, out_body_var, resp) ==
    <<[kind    |-> "debug",
       msg     |-> "finished",
       handler |-> inp.itemfn.ident,
       code    |-> as_code(resp.status_code),
       name    |-> StatusToString(resp.status_code)],
      [kind |-> "debug", msg |-> "* Response: {:?}", var |-> out_body_var]>>

\* The statements output_tracing gives for one response: the line naming the
\* code and the name of the status, then the payload when it is traced.
output_tracing(inp, out_body_var, resp) ==
    <<[kind    |-> "debug",
       msg     |-> "finished",
       handler |-> inp.itemfn.ident,
       code    |-> as_code(resp.status_code),
       name    |-> StatusToString(resp.status_code)]>>
    \o (IF resp.do_trace
        THEN <<[kind |-> "debug", msg |-> "* Response: {:?}", var |-> out_body_var]>>
        ELSE <<>>)

(***************************************************************************)
(* macros_internal.rs                                                      *)
(***************************************************************************)
\* check_func_return_type accepting any bare identifier.
check_func_return_type_any_ident(inp) ==
    IF inp.itemfn.output.kind = "ident"
    THEN Ok(TRUE)
    ELSE ErrWith("expecting return type", responses_enum_name(inp))

check_func_return_type(inp) ==
    IF inp.itemfn.output.kind = "ident" /\ inp.itemfn.output.ident = responses_enum_name(inp)
    THEN Ok(TRUE)
    ELSE ErrWith("expecting return type", responses_enum_name(inp))

set_func_return_type(inp) ==
    AndThen(check_func_return_type(inp), LAMBDA checked :
        Ok([inp EXCEPT !.itemfn.output = [kind |-> "ident", ident |-> responses_enum_ident(inp)]]))

\* ExtractorAttr::remove_extractor_attrs (args/extractor_attr.rs)
NotExtractorAttr(attr) == ~as_extractor_attr(attr)

\* remove_extractor_attrs removing the attribute that was parsed only: the
\* first extractor attribute of each parameter.
remove_first_extractor_attr(inp) ==
    LET inputs == inp.itemfn.inputs
        first(attrs) == CHOOSE k \in 1..Len(attrs) :
                            as_extractor_attr(attrs[k]) /\ \A m \in 1..(k - 1) : ~as_extractor_attr(attrs[m])
        cleaned(fnarg) ==
            IF fnarg.receiver \/ SelectSeq(fnarg.attrs, as_extractor_attr) = <<>> THEN fnarg
            ELSE [fnarg EXCEPT !.attrs = SubSeq(fnarg.attrs, 1, first(fnarg.attrs) - 1)
                                         \o SubSeq(fnarg.attrs, first(fnarg.attrs) + 1, Len(fnarg.attrs))]
    IN [inp EXCEPT !.itemfn.inputs = [i \in 1..Len(inputs) |-> cleaned(inputs[i])]]

remove_extractor_attrs(inp) ==
    LET inputs == inp.itemfn.inputs
        cleaned(fnarg) ==
            IF fnarg.receiver THEN fnarg
            ELSE [fnarg EXCEPT !.attrs = SelectSeq(fnarg.attrs, NotExtractorAttr)]
    IN [inp EXCEPT !.itemfn.inputs = [i \in 1..Len(inputs) |-> cleaned(inputs[i])]]

\* The Err arm keeping the annotated item next to the error.
CompileErrorKeepingItem(err) ==
    [kind |-> "compile_error", prefix |-> "autoroute macro failed: ", err |-> err,
     func |-> item]

\* The Err arm of autoroute_path_internal: the whole output is the error.
CompileError(err) ==
    [kind |-> "compile_error", prefix |-> "autoroute macro failed: ", err |-> err]

\* The quote! of autoroute_path_internal2 (lines 56-66).
Quoted(inp, meta_doc, enum, checkers, info) ==
    [kind             |-> "items",
     utoipa_path_meta |-> meta_doc,
     func             |-> inp.itemfn,
     responses_enum   |-> enum,
     trait_checkers   |-> checkers,
     route_info       |-> info]

(***************************************************************************)
(* The items of an expansion in use: the route_info! macro and RouteInfo   *)
(* (macros.rs, lib/src/route_info.rs), the variants of the responses enum, *)
(* the per-status conversion traits (lib/src/status_trait) and the         *)
(* conversion of a response into what goes on the wire.                    *)
(***************************************************************************)
\* route_info!: the last segment of the path is replaced by the name of
\* the RouteInfo constant, the segments before it are kept.
route_info_macro(path) ==
    IF path = <<>> THEN Err("path without a last segment")
    ELSE Ok(SubSeq(path, 1, Len(path) - 1) \o <<route_info_name(path[Len(path)])>>)

\* RouteInfo::method
RouteInfoMethod(info) == info.method

\* RouteInfo::path
RouteInfoPath(info) == info.path

\* The constant a path names in the module of the handler: the one the
\* expansion emitted, when the last segment is its name.
ResolveConst(path, emitted) ==
    IF emitted.kind = "items" /\ path[Len(path)] = emitted.route_info.name
    THEN Ok(emitted.route_info.value)
    ELSE Err("cannot find value in this scope")

\* A payload is a String (its characters) or a u32, returned with the
\* response parts in front of it (none unless WithParts adds them).
StringPayload(chars) == [ty |-> "String", chars |-> chars, num |-> 0, parts |-> <<>>]

U32Payload(n) == [ty |-> "u32", chars |-> <<>>, num |-> n, parts |-> <<>>]

\* A response part: a HeaderMap holding [name, value] headers.
HeaderMapPart(headers) == [ty |-> "HeaderMap", headers |-> headers]

\* (parts.., payload)
WithParts(returned, payload) == [payload EXCEPT !.parts = returned]

DecimalDigit(d) ==
    CASE d = 0 -> "0" [] d = 1 -> "1" [] d = 2 -> "2" [] d = 3 -> "3" [] d = 4 -> "4"
      [] d = 5 -> "5" [] d = 6 -> "6" [] d = 7 -> "7" [] d = 8 -> "8" [] OTHER -> "9"

RECURSIVE Decimal(_)
Decimal(n) == IF n < 10 THEN <<DecimalDigit(n)>> ELSE Decimal(n \div 10) \o <<DecimalDigit(n % 10)>>

JsonEscape(c) == IF c \in {"\"", "\\"} THEN <<"\\", c>> ELSE <<c>>

\* axum::Json on a payload: a string is quoted and escaped, a number is
\* written in decimal.
JsonBody(payload) ==
    IF payload.ty = "String"
    THEN <<"\"">> \o Concat([i \in 1..Len(payload.chars) |-> JsonEscape(payload.chars[i])]) \o <<"\"">>
    ELSE Decimal(payload.num)

\* The body and content type a serializer makes of a payload.  Without a
\* serializer the payload itself is the response, which a String is and a
\* u32 is not.
Serialized(serializer, payload) ==
    CASE serializer.kind = "Default" ->
            Ok([content_type |-> "application/json", body |-> JsonBody(payload)])
      [] serializer.kind = "None" ->
            IF payload.ty = "String"
            THEN Ok([content_type |-> "text/plain; charset=utf-8", body |-> payload.chars])
            ELSE Err("the trait bound IntoResponse is not satisfied")
      [] OTHER ->
            Ok([content_type |-> "", body |-> <<serializer.path>> \o JsonBody(payload)])

\* Enum::Variant(payload): the variant has to exist and to carry that type.
Construct(enum, variant, payload) ==
    IF ~\E i \in 1..Len(enum.variants) : enum.variants[i].name = variant
    THEN Err("no variant found for this enum")
    ELSE LET v == enum.variants[CHOOSE i \in 1..Len(enum.variants) : enum.variants[i].name = variant] IN
         IF /\ v.body.kind = "path" /\ v.body.name = payload.ty
            /\ Len(v.parts) = Len(payload.parts)
            /\ \A i \in 1..Len(v.parts) :
                  v.parts[i].kind = "path" /\ v.parts[i].name = payload.parts[i].ty
         THEN Ok([variant |-> variant, payload |-> payload])
         ELSE Err("mismatched types")

\* The conversion traits: one per status of the catalog, Into<Variant>, with
\* a method named after the status and one named after its code.  A method
\* is [by, key]: into_<name> is ["name", NAME], into_<code> is ["code", code].
StatusTraitOf(method) ==
    IF method.by = "name" THEN StatusFromStr(method.key) ELSE StatusFromRepr(method.key)

\* into_<status> building the first variant of the enum.
IntoStatusFirstVariant(enum, method, payload) ==
    IF StatusTraitOf(method) = {}
    THEN Err("no method found")
    ELSE Construct(enum, enum.variants[1].name, payload)

\* payload.into_<status>(): the trait of the method has to be implemented by
\* the payload type for the enum, which it is for the enum's variants.
IntoStatus(enum, method, payload) ==
    IF StatusTraitOf(method) = {}
    THEN Err("no method found")
    ELSE Construct(enum, CHOOSE v \in StatusTraitOf(method) : TRUE, payload)

RECURSIVE ExtendHeaders(_, _)
\* HeaderMap as a response part extends the headers of the response: a
\* content-type replaces the one of the body, any other header is added.
ExtendHeaders(headers, res) ==
    IF headers = <<>> THEN res
    ELSE ExtendHeaders(Tail(headers),
            IF Head(headers).name = "content-type"
            THEN [res EXCEPT !.content_type = Head(headers).value]
            ELSE [res EXCEPT !.headers = Append(@, Head(headers))])

RECURSIVE ApplyParts(_, _)
\* (parts.., body).into_response(): the parts are applied, in order, to the
\* response of the body.
ApplyParts(returned, res) ==
    IF returned = <<>> THEN res
    ELSE ApplyParts(Tail(returned), ExtendHeaders(Head(returned).headers, res))

\* into_response setting the content type the response declares.
into_response_declared_content_type(enum, value) ==
    LET v == enum.variants[CHOOSE i \in 1..Len(enum.variants) : enum.variants[i].name = value.variant]
        declared == input.meta.responses[CHOOSE i \in 1..Len(input.meta.responses) :
                        input.meta.responses[i].status_code = value.variant]
    IN
    AndThen(Serialized(v.serializer, value.payload), LAMBDA out :
        Ok(ApplyParts(value.payload.parts,
              [status |-> v.status,
               content_type |-> IF declared.content_type.some THEN declared.content_type.v
                                ELSE out.content_type,
               body |-> out.body, headers |-> <<>>])))

\* IntoResponse of the responses enum: the status of the variant, its
\* payload through the serializer of the variant, and the headers of the
\* parts returned with it.
into_response(enum, value) ==
    LET v == enum.variants[CHOOSE i \in 1..Len(enum.variants) : enum.variants[i].name = value.variant] IN
    AndThen(Serialized(v.serializer, value.payload), LAMBDA out :
        Ok(ApplyParts(value.payload.parts,
              [status |-> v.status, content_type |-> out.content_type, body |-> out.body,
               headers |-> <<>>])))

\* The three ways of writing a response: Enum::Variant(v), v.into_<name>(),
\* v.into_<code>().
Ways == {"variant", "into_name", "into_code"}

\* The statuses a handler tries to answer with.
TriedStatuses == {sc \in HttpStatusCode : sc.code \in {200, 201, 404, 418}}

\* The headers of the attachment: a content type and a disposition.
FileHeaders ==
    <<[name |-> "content-type", value |-> "text/plain"],
      [name |-> "content-disposition", value |-> "attachment"]>>

Payloads ==
    { StringPayload(<<"h", "i">>), StringPayload(<<"\"">>), U32Payload(8),
      WithParts(<<HeaderMapPart(FileHeaders)>>, StringPayload(<<"h", "i">>)) }

\* Module paths in front of the handler name in route_info!.
ModulePrefixes ==
    { <<>>, << <<"s", "u", "p", "e", "r">> >>, << <<"c", "r", "a", "t", "e">>, <<"r", "o", "u", "t", "e", "s">> >> }

(***************************************************************************)
(* lib/src/router.rs: AutorouteApiRouter, a public and a private           *)
(* OpenApiRouter.  An OpenApiRouter is [routes, openapi]: the routes it    *)
(* serves and the routes its OpenApi documents.  A route is                *)
(* [handler, method, path].                                                *)
(***************************************************************************)
\* OpenApiRouter::new and OpenApiRouter::with_openapi(OpenApi::default())
OpenApiRouterNew == [routes |-> {}, openapi |-> {}]

\* OpenApiRouter::routes: the route is served and documented.
OpenApiRouterRoutes(r, method_router) ==
    [routes |-> r.routes \cup {method_router}, openapi |-> r.openapi \cup {method_router}]

\* OpenApiRouter::split_for_parts
OpenApiRouterSplit(r) == [router |-> r.routes, doc |-> r.openapi]

\* OpenApiRouter::merge: the routes and the documentation of both.
OpenApiRouterMerge(r, other) ==
    [routes |-> r.routes \cup other.routes, openapi |-> r.openapi \cup other.openapi]

\* The routes under a path prefix.
Nested(path, routes) == { [x EXCEPT !.path = path \o @] : x \in routes }

\* OpenApiRouter::nest: the routes and the documentation of the other
\* router under the path.
OpenApiRouterNest(r, path, other) ==
    [routes  |-> r.routes \cup Nested(path, other.routes),
     openapi |-> r.openapi \cup Nested(path, other.openapi)]

\* Router::merge with an OpenApiRouter: its routes, not its documentation.
RouterMerge(served, r) == served \cup r.routes

\* The routes of other handlers of the application.
OtherRoutes ==
    { [handler |-> <<"g">>, method |-> "get",  path |-> "/g"],
      [handler |-> <<"p">>, method |-> "post", path |-> "/g"] }

\* method_router!(handler): utoipa_axum::routes! reads the method and the
\* path off the documentation generated next to the handler.
method_router(handler) ==
    IF handler = item.ident
    THEN [handler |-> handler,
          method  |-> expansion.utoipa_path_meta.method,
          path    |-> expansion.utoipa_path_meta.path]
    ELSE CHOOSE r \in OtherRoutes : r.handler = handler

\* method_routers!(h1, h2, ...)
method_routers(handlers) == [i \in 1..Len(handlers) |-> method_router(handlers[i])]

\* AutorouteApiRouter::new
AutorouteApiRouterNew == [pub_router |-> OpenApiRouterNew, priv_router |-> OpenApiRouterNew]

with_pub_route(self, mr) ==
    [self EXCEPT !.pub_router = OpenApiRouterRoutes(self.pub_router, mr)]

RECURSIVE with_pub_routes(_, _)
with_pub_routes(self, mrs) ==
    IF mrs = <<>> THEN self
    ELSE with_pub_routes([self EXCEPT !.pub_router = OpenApiRouterRoutes(self.pub_router, Head(mrs))],
                         Tail(mrs))

with_priv_route(self, mr) ==
    [self EXCEPT !.priv_router = OpenApiRouterRoutes(self.priv_router, mr)]

\* The loop of with_priv_routes adds each route to pub_router (line 89).
RECURSIVE with_priv_routes(_, _)
with_priv_routes(self, mrs) ==
    IF mrs = <<>> THEN self
    ELSE with_priv_routes([self EXCEPT !.pub_router = OpenApiRouterRoutes(self.pub_router, Head(mrs))],
                          Tail(mrs))

split_for_parts(self) ==
    LET split == OpenApiRouterSplit(self.pub_router) IN
    [router |-> RouterMerge(split.router, self.priv_router), doc |-> split.doc]

split_for_parts_with_private_doc(self) ==
    OpenApiRouterSplit(OpenApiRouterMerge(self.pub_router, self.priv_router))

\* merge keeping the public routes of the other router only.
merge_pub_only(self, other) ==
    [pub_router  |-> OpenApiRouterMerge(self.pub_router, other.pub_router),
     priv_router |-> self.priv_router]

merge(self, other) ==
    [pub_router  |-> OpenApiRouterMerge(self.pub_router, other.pub_router),
     priv_router |-> OpenApiRouterMerge(self.priv_router, other.priv_router)]

nest(self, path, other) ==
    [pub_router  |-> OpenApiRouterNest(self.pub_router, path, other.pub_router),
     priv_router |-> OpenApiRouterNest(self.priv_router, path, other.priv_router)]

RECURSIVE RouterOf(_)

\* One builder call applied to the router: [op, handlers], and for merge
\* and nest [op, handlers, path, router], router being the builder calls
\* that make the argument.
BuilderCall(self, c) ==
    CASE c.op = "with_pub_route"   -> with_pub_route(self, method_router(c.handlers[1]))
      [] c.op = "with_pub_routes"  -> with_pub_routes(self, method_routers(c.handlers))
      [] c.op = "with_priv_route"  -> with_priv_route(self, method_router(c.handlers[1]))
      [] c.op = "merge"            -> merge(self, RouterOf(c.router))
      [] c.op = "nest"             -> nest(self, c.path, RouterOf(c.router))
      [] OTHER                     -> with_priv_routes(self, method_routers(c.handlers))

\* AutorouteApiRouter::new() followed by the builder calls.
RouterOf(calls) ==
    IF calls = <<>> THEN AutorouteApiRouterNew
    ELSE BuilderCall(RouterOf(SubSeq(calls, 1, Len(calls) - 1)), calls[Len(calls)])

\* The router returned by split_for_parts serves the handler.
Served(handler) == parts # Nothing /\ \E r \in parts.router : r.handler = handler

(***************************************************************************)
(* The expansion of one #[autoroute(...)] attribute, stage by stage.       *)
(* A stage that fails ends the expansion with the compile error.           *)
(***************************************************************************)
Fail(err) ==
    /\ stage' = "failed"
    /\ expansion' = CompileError(err)

\* A fallible stage: on success its value goes to its slot (new is the
\* slot primed, cur the slot) and the expansion moves on to stage next; on
\* failure the expansion ends with the error.
Staged(r, cur, new, next) ==
    IF r.ok
    THEN /\ new = r.val
         /\ stage' = next
         /\ UNCHANGED expansion
    ELSE /\ Fail(r.err)
         /\ new = cur

Build ==
    /\ stage = "start"
    /\ Staged(build(meta_args, item), input, input', "responses_enum")
    /\ UNCHANGED <<features, item, meta_args, responses_enum, utoipa_path_meta,
                   trait_checkers, route_info, call, ret, reads, log, router_vars>>

DeclareResponsesEnum ==
    /\ stage = "responses_enum"
    /\ Staged(declare_responses_enum(input), responses_enum, responses_enum', "utoipa_path_meta")
    /\ UNCHANGED <<features, item, meta_args, input, utoipa_path_meta,
                   trait_checkers, route_info, call, ret, reads, log, router_vars>>

DeclareUtoipaPathMeta ==
    /\ stage = "utoipa_path_meta"
    /\ Staged(declare_utoipa_path_meta(input), utoipa_path_meta, utoipa_path_meta', "trait_checkers")
    /\ UNCHANGED <<features, item, meta_args, input, responses_enum,
                   trait_checkers, route_info, call, ret, reads, log, router_vars>>

DeclareTraitCheckers ==
    /\ stage = "trait_checkers"
    /\ trait_checkers' = declare_trait_checkers(input)
    /\ stage' = "route_info"
    /\ UNCHANGED <<features, item, meta_args, input, responses_enum,
                   utoipa_path_meta, route_info, expansion, call, ret, reads, log, router_vars>>

DeclareRouteInfo ==
    /\ stage = "route_info"
    /\ route_info' = declare_route_info(input)
    /\ stage' = "return_type"
    /\ UNCHANGED <<features, item, meta_args, input, responses_enum,
                   utoipa_path_meta, trait_checkers, expansion, call, ret, reads, log, router_vars>>

SetFuncReturnType ==
    /\ stage = "return_type"
    /\ Staged(set_func_return_type(input), input, input', "extractor_attrs")
    /\ UNCHANGED <<features, item, meta_args, responses_enum, utoipa_path_meta,
                   trait_checkers, route_info, call, ret, reads, log, router_vars>>

RemoveExtractorAttrs ==
    /\ stage = "extractor_attrs"
    /\ input' = remove_extractor_attrs(input)
    /\ stage' = "tracing"
    /\ UNCHANGED <<features, item, meta_args, responses_enum, utoipa_path_meta,
                   trait_checkers, route_info, expansion, call, ret, reads, log, router_vars>>

\* Compiled in only with the tracing feature.
AddInputsTracing ==
    /\ stage = "tracing"
    /\ input' = IF Tracing THEN add_inputs_tracing(input) ELSE input
    /\ stage' = "quote"
    /\ UNCHANGED <<features, item, meta_args, responses_enum, utoipa_path_meta,
                   trait_checkers, route_info, expansion, call, ret, reads, log, router_vars>>

Quote ==
    /\ stage = "quote"
    /\ expansion' = Quoted(input, utoipa_path_meta, responses_enum, trait_checkers, route_info)
    /\ stage' = "done"
    /\ UNCHANGED <<features, item, meta_args, input, responses_enum,
                   utoipa_path_meta, trait_checkers, route_info, call, ret, reads, log, router_vars>>

\* The application starts: AutorouteApiRouter::new().
RouterNew ==
    /\ stage = "done"
    /\ router = Nothing
    /\ router' = AutorouteApiRouterNew
    /\ UNCHANGED <<pipeline_vars, call, ret, reads, log, plan, parts>>

\* The next builder call of the application.
RouterCall ==
    /\ stage = "done"
    /\ router # Nothing
    /\ plan.pc <= Len(plan.calls)
    /\ router' = BuilderCall(router, plan.calls[plan.pc])
    /\ plan' = [plan EXCEPT !.pc = @ + 1]
    /\ UNCHANGED <<pipeline_vars, call, ret, reads, log, parts>>

\* The router is complete: split_for_parts, and the application serves.
SplitForParts ==
    /\ stage = "done"
    /\ router # Nothing
    /\ plan.pc > Len(plan.calls)
    /\ parts = Nothing
    /\ parts' = IF plan.split = "split_for_parts"
                THEN split_for_parts(router)
                ELSE split_for_parts_with_private_doc(router)
    /\ UNCHANGED <<pipeline_vars, call, ret, reads, log, plan, router>>

\* A request reaches the handler: its block starts.
Invoke ==
    /\ stage = "done"
    /\ call = Nothing
    /\ Served(item.ident)
    /\ call' = [op |-> "invoke", pc |-> 1]
    /\ log' = <<>>
    /\ UNCHANGED <<pipeline_vars, ret, reads, router_vars>>

\* The next statement of the block is a tracing::debug!: its line is
\* emitted.
RunStmt ==
    /\ stage = "done"
    /\ call # Nothing
    /\ call.op = "invoke"
    /\ expansion.func.block[call.pc].kind = "debug"
    /\ log' = Append(log, expansion.func.block[call.pc])
    /\ call' = [call EXCEPT !.pc = @ + 1]
    /\ UNCHANGED <<pipeline_vars, ret, reads, router_vars>>

\* The lines the response traces when it is converted: those of
\* output_tracing for the response of its variant, with the tracing feature.
ResponseTraces(value) ==
    IF Tracing
    THEN output_tracing(input, value.payload,
             input.meta.responses[CHOOSE i \in 1..Len(input.meta.responses) :
                 input.meta.responses[i].status_code = value.variant])
    ELSE <<>>

\* The body of the handler returns a response, written one of the three
\* ways, for any status of the catalog and any payload; what rustc and
\* then axum make of it.
Respond ==
    /\ stage = "done"
    /\ call # Nothing
    /\ call.op = "invoke"
    /\ expansion.func.block[call.pc].kind = "body"
    /\ \E sc \in TriedStatuses, how \in Ways, payload \in Payloads :
         LET value == CASE how = "variant" -> Construct(expansion.responses_enum, sc.variant, payload)
                        [] how = "into_name" ->
                              IntoStatus(expansion.responses_enum, [by |-> "name", key |-> sc.name], payload)
                        [] OTHER ->
                              IntoStatus(expansion.responses_enum, [by |-> "code", key |-> sc.code], payload)
             wire  == AndThen(value, LAMBDA v : into_response(expansion.responses_enum, v))
         IN /\ call' = [op |-> "respond", how |-> how, status |-> sc.variant, payload |-> payload]
            /\ ret' = wire
            /\ log' = IF wire.ok THEN log \o ResponseTraces(value.val) ELSE log
    /\ UNCHANGED <<pipeline_vars, reads, router_vars>>

\* route_info!(q::h) read from some module of the running application,
\* then its two accessors.
ReadRouteInfo ==
    /\ stage = "done"
    /\ call = Nothing
    /\ parts # Nothing
    /\ reads < MaxReads
    /\ \E q \in ModulePrefixes :
         /\ call' = [op |-> "route_info", path |-> q \o <<input.itemfn.ident>>]
         /\ ret' = AndThen(route_info_macro(q \o <<input.itemfn.ident>>), LAMBDA path :
                   AndThen(ResolveConst(path, expansion), LAMBDA info :
                      Ok([const |-> path, method |-> RouteInfoMethod(info), path |-> RouteInfoPath(info)])))
    /\ reads' = reads + 1
    /\ UNCHANGED <<pipeline_vars, log, router_vars>>

\* The use ends: the response is sent, the value read is dropped.
Finish ==
    /\ stage = "done"
    /\ call # Nothing
    /\ call.op # "invoke"
    /\ call' = Nothing
    /\ ret' = Nothing
    /\ log' = <<>>
    /\ UNCHANGED <<pipeline_vars, reads, router_vars>>

Next ==
    \/ Build
    \/ DeclareResponsesEnum
    \/ DeclareUtoipaPathMeta
    \/ DeclareTraitCheckers
    \/ DeclareRouteInfo
    \/ SetFuncReturnType
    \/ RemoveExtractorAttrs
    \/ AddInputsTracing
    \/ Quote
    \/ RouterNew
    \/ RouterCall
    \/ SplitForParts
    \/ Invoke
    \/ RunStmt
    \/ Respond
    \/ ReadRouteInfo
    \/ Finish

(***************************************************************************)
(* The declarations the model expands.                                     *)
(***************************************************************************)
FnNames == { <<"h">>, <<"a", "_", "b">>, <<"r", "_", "1">> }

FnArg(attrs, pat, ty) == [receiver |-> FALSE, attrs |-> attrs, pat |-> pat, ty |-> ty]

Attr(path, args) == [path |-> path, is_list |-> TRUE, args |-> args]

KeyVal(k, v) == [key |-> Ident(k), val |-> v]

ItemFn(name, inputs, output) ==
    [parses |-> TRUE, vis |-> "pub", ident |-> name, inputs |-> inputs, output |-> output,
     block |-> <<[kind |-> "body", msg |-> "", label |-> "", var |-> "", handler |-> name]>>]

RetIdent(name) == [kind |-> "ident", ident |-> name]

\* The return type the macro expects for the handler `name`.
GoodReturn(name) == RetIdent(ToPascal(name) \o ResponsesSuffix)

ResponseEntry(status, body, named) ==
    [status |-> status, body_key |-> Ident("body"), body |-> body, named |-> named]

MetaArgs(method, path, named) ==
    [method |-> method, path_key |-> Ident("path"), path |-> path, named |-> named]

GoodResponses == <<ResponseEntry(Ident("OK"), TyPath("String"), <<>>)>>

GoodMeta(responses) ==
    MetaArgs(Ident("GET"), Str("/x/{id}"), <<KeyVal("responses", List(responses))>>)

\* Status tokens: both spellings of two catalog codes, an unassigned
\* number and a PascalCase name.
StatusTokens ==
    { IntLit(200), Ident("OK"), IntLit(404), Ident("NOT_FOUND"), IntLit(10), Ident("NotFound") }

SerializerFields == { <<>>, <<KeyVal("serializer", Ident("NONE"))>> }

ResponseEntries ==
    { ResponseEntry(st, TyPath("String"), named) : st \in StatusTokens, named \in SerializerFields }
    \cup { ResponseEntry(IntLit(201), TyPath("u32"), <<>>) }

\* The named fields of a response entry: each key, trace with both values,
\* and a key that is none of them.
NamedFields ==
    { KeyVal("trace", Bool(FALSE)), KeyVal("trace", Bool(TRUE)),
      KeyVal("description", Str("d")),
      KeyVal("serializer", Ident("NONE")),
      KeyVal("content_type", Ident("TEXT_PLAIN")),
      KeyVal("headers", List(<<[name |-> Ident("SET_COOKIE"), description |-> NoTok]>>)),
      KeyVal("unknown", Str("x")) }

\* Parameters: the known extractors, an unknown one without and with a
\* content_type, and a parameter without a name.
InnerTy == TyPath("T")

PlainParams ==
    { FnArg(<<>>, Pat("tuple_struct", k, <<PatIdent("v")>>), TyGeneric(k, <<InnerTy>>))
        : k \in {"Path", "Json", "TypedMultipart", "Custom"} }
    \cup { FnArg(<<>>, PatIdent("v"), TyPath("Body")) }

AttrParams ==
    { FnArg(<<Attr("extractor", <<KeyVal("content_type", Str("text/plain"))>>)>>,
            PatIdent("v"), TyGeneric("Custom", <<InnerTy>>)),
      FnArg(<<Attr("extractor", <<KeyVal("content_type", Ident("APPLICATION_JSON")),
                                  KeyVal("content_type", Str("application/pdf")),
                                  KeyVal("trace", Bool(FALSE))>>)>>,
            PatIdent("v"), TyGeneric("Custom", <<InnerTy>>)) }

BadParams == { FnArg(<<>>, PatWild, TyGeneric("Query", <<InnerTy>>)) }

Params == PlainParams \cup AttrParams \cup BadParams

\* The key = value pairs of an extractor attribute.
AttrArgs ==
    { KeyVal("trace", Bool(FALSE)), KeyVal("trace", Bool(TRUE)),
      KeyVal("content_type", Str("text/plain")),
      KeyVal("into_params", Bool(TRUE)), KeyVal("into_params", Bool(FALSE)) }

\* A parameter without an extractor attribute, or with one of up to
\* MaxAttrArgs pairs.
ExtractorAttrs ==
    { <<>> } \cup { <<Attr("extractor", args)>> : args \in SeqsUpTo(AttrArgs, MaxAttrArgs) }

KnownNames == {"Json", "Body", "TypedMultipart", "Path", "Query"}

\* The type of a parameter named after the extractor: Body has no generic
\* argument.
SiteTy(name) == IF name = "Body" THEN TyPath(name) ELSE TyGeneric(name, <<InnerTy>>)

\* Patterns of a parameter: a name, the wildcard, a reference, and the
\* destructurings of up to MaxFields fields, a field being any of the former
\* or a destructuring itself.
FieldPats ==
    { PatIdent("v"), PatIdent("w"), PatWild, Pat("tuple_struct", "P", <<PatIdent("v")>>) }

Patterns ==
    FieldPats
    \cup { Pat("reference", "", <<p>>) : p \in FieldPats }
    \cup { Pat(k, "", fs) : k \in {"struct", "tuple", "tuple_struct"}, fs \in SeqsUpTo(FieldPats, MaxFields) }

ReturnTypes ==
    { [kind |-> "default", ident |-> <<>>], [kind |-> "other", ident |-> <<>>] }
    \cup { [kind |-> k, ident |-> ToPascal(n) \o ResponsesSuffix] : k \in {"ident", "path"}, n \in FnNames }
    \cup { RetIdent(<<"T", "e", "s", "t">>) }

FeatureSets == { {}, {"tracing"}, {"tracing", "unstable_extractor_attr"} }

\* Every slot before the expansion starts.
Unstarted ==
    /\ stage = "start"
    /\ input = Nothing
    /\ responses_enum = Nothing
    /\ utoipa_path_meta = Nothing
    /\ trait_checkers = Nothing
    /\ route_info = Nothing
    /\ expansion = Nothing
    /\ call = Nothing
    /\ ret = Nothing
    /\ reads = 0
    /\ log = <<>>
    /\ router = Nothing
    /\ parts = Nothing

\* A builder call of the application: the method and the handlers named.
BuilderOp(op, handlers) == [op |-> op, handlers |-> handlers]

\* AutorouteApiRouter::new().call1(..).call2(..)...split_for_parts(), none
\* of the calls made yet.
ChainTo(calls, split) == [calls |-> calls, pc |-> 1, split |-> split]

\* The chain that ends in split_for_parts.
Chain(calls) == ChainTo(calls, "split_for_parts")

\* merge(router) and nest(path, router), the argument built by calls.
RouterOp(op, path, calls) == [op |-> op, handlers |-> <<>>, path |-> path, router |-> calls]

\* Nothing has started, and the application registers the handler as its
\* one public route.
Fresh ==
    /\ Unstarted
    /\ plan = Chain(<<BuilderOp("with_pub_route", <<item.ident>>)>>)

\* Declarations that differ in their responses list.
InitResponses ==
    /\ features = {"tracing", "unstable_extractor_attr"}
    /\ item = ItemFn(<<"h">>, <<>>, GoodReturn(<<"h">>))
    /\ \E rs \in SeqsUpTo(ResponseEntries, MaxResponses) : meta_args = GoodMeta(rs)
    /\ Fresh

\* Declarations that differ in the handler's parameters.
InitParams ==
    /\ features \in {{"tracing"}, {"tracing", "unstable_extractor_attr"}}
    /\ \E ps \in SeqsUpTo(Params, MaxParams) : item = ItemFn(<<"h">>, ps, GoodReturn(<<"h">>))
    /\ meta_args = GoodMeta(GoodResponses)
    /\ Fresh

\* Declarations that differ in the handler's name and written return type.
InitReturn ==
    /\ features \in FeatureSets
    /\ \E n \in FnNames, out \in ReturnTypes : item = ItemFn(n, <<>>, out)
    /\ meta_args = GoodMeta(GoodResponses)
    /\ Fresh

\* Declarations that differ in the pattern of the handler's one parameter.
InitPatterns ==
    /\ features = {"tracing", "unstable_extractor_attr"}
    /\ \E p \in Patterns :
         item = ItemFn(<<"h">>, <<FnArg(<<>>, p, TyGeneric("Path", <<InnerTy>>))>>, GoodReturn(<<"h">>))
    /\ meta_args = GoodMeta(GoodResponses)
    /\ Fresh

\* Declarations that differ in the extractor attribute of the handler's
\* one parameter, of a known or an unknown kind.
InitAttrs ==
    /\ features \in {{"tracing"}, {"tracing", "unstable_extractor_attr"}}
    /\ \E name \in KnownNames \cup {"Custom"}, attrs \in ExtractorAttrs :
         item = ItemFn(<<"h">>, <<FnArg(attrs, PatIdent("v"), SiteTy(name))>>, GoodReturn(<<"h">>))
    /\ meta_args = GoodMeta(GoodResponses)
    /\ Fresh

\* Declarations that differ in the named fields of their first response,
\* up to MaxNamed of them, with or without the tracing feature.
InitNamed ==
    /\ features \in {{}, {"tracing"}}
    /\ item = ItemFn(<<"h">>, <<>>, GoodReturn(<<"h">>))
    /\ \E named \in SeqsUpTo(NamedFields, MaxNamed) :
         meta_args = GoodMeta(<<ResponseEntry(Ident("OK"), TyPath("String"), named),
                                ResponseEntry(IntLit(404), TyPath("String"), <<>>)>>)
    /\ Fresh

\* The named arguments of the attribute as they can be written: responses
\* and tags, well formed, empty or not a list, an unknown name, and a comma
\* alone.
MetaFields ==
    { KeyVal("responses", List(GoodResponses)), KeyVal("responses", List(<<>>)),
      KeyVal("responses", Str("r")),
      KeyVal("tags", List(<<Str("t")>>)), KeyVal("tags", List(<<>>)),
      KeyVal("unknown", Str("test")), OnlyComma }

\* Declarations that differ in the arguments of the attribute: the two
\* positional ones, present, absent or misplaced, and up to MaxMetaFields
\* named ones.
InitMeta ==
    /\ features = {"tracing"}
    /\ item = ItemFn(<<"h">>, <<>>, GoodReturn(<<"h">>))
    /\ \E method \in {Ident("GET"), Ident("POST"), Ident("path"), NoTok},
          path_key \in {Ident("path"), Ident("GET"), NoTok},
          path \in {Str("/x"), NoTok},
          named \in SeqsUpTo(MetaFields, MaxMetaFields) :
         meta_args = [method |-> method, path_key |-> path_key, path |-> path, named |-> named]
    /\ Fresh

\* Every way of writing a status: the code and the name of each catalog
\* entry, numbers that are no code of the catalog or no u16, names in
\* another case, a qualified path, string literals, and nothing.
AllStatusTokens ==
    { IntLit(sc.code) : sc \in HttpStatusCode } \cup { Ident(sc.name) : sc \in HttpStatusCode }
    \cup { IntLit(10), IntLit(299), IntLit(70000) }
    \cup { Ident("NotFound"), Ident("Ok"), Ident("ok"), Ident("not_found") }
    \cup { QPath("StatusCode"), Str("200"), Str("OK"), NoTok }

\* Declarations that differ in the status of their one response.
InitStatus ==
    /\ features \in {{}, {"tracing"}}
    /\ item = ItemFn(<<"h">>, <<>>, GoodReturn(<<"h">>))
    /\ \E st \in AllStatusTokens : meta_args = GoodMeta(<<ResponseEntry(st, TyPath("String"), <<>>)>>)
    /\ Fresh

\* The types a body= tuple is made of: two type paths and a tuple.
ElemTys == { TyPath("CookieJar"), TyPath("String"), TyTuple(<<TyPath("A"), TyPath("B")>>) }

\* The types written after body=: tuples of up to MaxTuple elements, the
\* empty one included, a type in parentheses, a type path, and a type that
\* is none of these.
BodyTys ==
    { TyTuple(es) : es \in SeqsUpTo(ElemTys, MaxTuple) }
    \cup { TyParen(e) : e \in ElemTys }
    \cup { TyPath("CookieJar"), TyPath("String"), TyOther }

\* Declarations that differ in the body type of their one response.
InitBodies ==
    /\ features \in {{}, {"tracing"}}
    /\ item = ItemFn(<<"h">>, <<>>, GoodReturn(<<"h">>))
    /\ \E ty \in BodyTys : meta_args = GoodMeta(<<ResponseEntry(Ident("OK"), ty, <<>>)>>)
    /\ Fresh

\* The handlers of the application: h is the annotated function.
Handlers == { <<"h">>, <<"g">>, <<"p">> }

\* The builder calls: one handler for with_pub_route and with_priv_route,
\* up to MaxRoutes different handlers for with_pub_routes and
\* with_priv_routes.
BuilderOps ==
    { BuilderOp(op, <<handler>>) : op \in {"with_pub_route", "with_priv_route"}, handler \in Handlers }
    \cup { BuilderOp(op, hs) :
              op \in {"with_pub_routes", "with_priv_routes"},
              hs \in { x \in SeqsUpTo(Handlers, MaxRoutes) :
                         \A i, j \in 1..Len(x) : x[i] = x[j] => i = j } }

\* The chains of up to MaxCalls builder calls that register no handler
\* twice (axum panics on a method and path that is already routed).
Chains ==
    { cs \in SeqsUpTo(BuilderOps, MaxCalls) :
        \A i, j \in 1..Len(cs) : \A a \in 1..Len(cs[i].handlers), b \in 1..Len(cs[j].handlers) :
            cs[i].handlers[a] = cs[j].handlers[b] => i = j /\ a = b }

\* Applications that differ in how they register their handlers.
InitRouter ==
    /\ features \in {{}, {"tracing"}}
    /\ item = ItemFn(<<"h">>, <<>>, GoodReturn(<<"h">>))
    /\ meta_args = GoodMeta(GoodResponses)
    /\ Unstarted
    /\ \E cs \in Chains : plan = Chain(cs)

\* A parameter v: name<inner> with the extractor attribute arguments given
\* (no attribute when there are none).
Site(name, inner, args) ==
    FnArg(IF args = <<>> THEN <<>> ELSE <<Attr("extractor", args)>>,
          PatIdent("v"), TyGeneric(name, <<TyPath(inner)>>))

\* Sites that differ in their inner type: Path, Query and Json, and an
\* unknown extractor without attribute, with trace= alone, with
\* into_params=true, with into_params=false and with a content_type.
Sites ==
    { Site("Path", "A", <<>>), Site("Query", "B", <<>>), Site("Json", "J", <<>>),
      Site("Custom", "C", <<>>),
      Site("Custom", "D", <<KeyVal("trace", Bool(TRUE))>>),
      Site("Custom", "E", <<KeyVal("into_params", Bool(TRUE))>>),
      Site("Custom", "F", <<KeyVal("into_params", Bool(FALSE))>>),
      Site("Custom", "G", <<KeyVal("content_type", Str("text/plain"))>>) }

\* Declarations that differ in the sites of the handler, up to MaxParams of
\* them.
InitSites ==
    /\ features \in {{"tracing"}, {"tracing", "unstable_extractor_attr"}}
    /\ \E ps \in SeqsUpTo(Sites, MaxParams) : item = ItemFn(<<"h">>, ps, GoodReturn(<<"h">>))
    /\ meta_args = GoodMeta(GoodResponses)
    /\ Fresh

\* The attributes of a parameter: extractor attributes under both names,
\* one of them with a key that does not parse, two attributes of other
\* names, and the word extractor written without a list, which
\* as_extractor_attr does not take for an extractor attribute.
ParamAttrs ==
    { Attr("extractor", <<KeyVal("trace", Bool(FALSE))>>),
      Attr("extractor", <<KeyVal("into_params", Bool(TRUE))>>),
      Attr("autoroute_extractor", <<KeyVal("trace", Bool(TRUE))>>),
      Attr("extractor", <<KeyVal("unknown", Bool(TRUE))>>),
      Attr("cfg_attr", <<>>),
      Attr("allow", <<>>),
      [path |-> "extractor", is_list |-> FALSE, args |-> <<>>] }

\* Declarations that differ in the attributes of the second of the
\* handler's two parameters, up to MaxAttrs of them, and in its extractor.
InitAttrLists ==
    /\ features \in {{"tracing"}, {"tracing", "unstable_extractor_attr"}}
    /\ \E name \in {"Query", "Custom"}, attrs \in SeqsUpTo(ParamAttrs, MaxAttrs) :
         item = ItemFn(<<"h">>,
                       <<FnArg(<<Attr("allow", <<>>)>>, Pat("tuple_struct", "Path", <<PatIdent("w")>>),
                               TyGeneric("Path", <<TyPath("A")>>)),
                         FnArg(attrs, PatIdent("v"), TyGeneric(name, <<TyPath("B")>>))>>,
                       GoodReturn(<<"h">>))
    /\ meta_args = GoodMeta(GoodResponses)
    /\ Fresh

\* The generic arguments of a parameter type: two types and a lifetime.
GenericArgs == { TyPath("T"), TyPath("U"), Ty("lifetime", "a", <<>>) }

\* The parameter types: type paths named after a known or an unknown
\* extractor with up to MaxGenerics generic arguments, and a tuple.
GenericTys ==
    { TyGeneric(name, args) : name \in {"Path", "Json", "Custom"}, args \in SeqsUpTo(GenericArgs, MaxGenerics) }
    \cup { TyTuple(<<TyPath("T")>>) }

\* Declarations that differ in the type of the handler's one parameter.
InitGenerics ==
    /\ features \in {{}, {"tracing"}}
    /\ \E ty \in GenericTys :
         item = ItemFn(<<"h">>, <<FnArg(<<>>, PatIdent("v"), ty)>>, GoodReturn(<<"h">>))
    /\ meta_args = GoodMeta(GoodResponses)
    /\ Fresh

\* The named fields that document a response, and serializer=NONE.
DocFields ==
    { KeyVal("content_type", Ident("TEXT_PLAIN")),
      KeyVal("content_type", Str("application/pdf")),
      KeyVal("headers", List(<<[name |-> Ident("CONTENT_DISPOSITION"), description |-> NoTok]>>)),
      KeyVal("headers", List(<<[name |-> Ident("SET_COOKIE"), description |-> Str("c")],
                               [name |-> Ident("CONTENT_ENCODING"), description |-> NoTok]>>)),
      KeyVal("headers", List(<<>>)),
      KeyVal("description", Str("d")),
      KeyVal("serializer", Ident("NONE")) }

\* Declarations that differ in how their first response is documented, up
\* to MaxNamed fields, in whether it returns parts, and in whether a
\* second response follows.
InitDocs ==
    /\ features \in {{}, {"tracing"}}
    /\ item = ItemFn(<<"h">>, <<>>, GoodReturn(<<"h">>))
    /\ \E named \in SeqsUpTo(DocFields, MaxNamed),
          body \in { TyPath("String"), TyTuple(<<TyPath("HeaderMap"), TyPath("String")>>) },
          rest \in { <<>>, <<ResponseEntry(IntLit(404), TyPath("u32"), <<KeyVal("description", Str("e"))>>)>> } :
         meta_args = GoodMeta(<<ResponseEntry(Ident("OK"), body, named)>> \o rest)
    /\ Fresh

\* The routers given to merge and nest: they hold the other handlers of
\* the application, public or private.
SubRouters ==
    { <<>>,
      <<BuilderOp("with_pub_route", <<<<"g">>>>)>>,
      <<BuilderOp("with_priv_route", <<<<"g">>>>)>>,
      <<BuilderOp("with_pub_routes", <<<<"g">>, <<"p">>>>)>>,
      <<BuilderOp("with_pub_route", <<<<"g">>>>), BuilderOp("with_priv_route", <<<<"p">>>>)>>,
      <<BuilderOp("with_priv_route", <<<<"g">>>>), BuilderOp("with_pub_route", <<<<"p">>>>)>>,
      <<BuilderOp("with_priv_route", <<<<"p">>>>),
        RouterOp("nest", "/m", <<BuilderOp("with_priv_route", <<<<"g">>>>)>>)>> }

\* The calls of a chain that merges and nests: the handler h registered
\* directly, the others through a router that is merged or nested.
MergingOps ==
    { BuilderOp(op, <<<<"h">>>>) : op \in {"with_pub_route", "with_priv_route", "with_pub_routes"} }
    \cup { BuilderOp("with_pub_routes", <<>>) }
    \cup { RouterOp("merge", "", sub) : sub \in SubRouters }
    \cup { RouterOp("nest", "/n", sub) : sub \in SubRouters }

RECURSIVE HandlersOf(_)
\* The handlers a sequence of builder calls registers, in order.
HandlersOf(calls) ==
    IF calls = <<>> THEN <<>>
    ELSE (IF Head(calls).op \in {"merge", "nest"}
          THEN HandlersOf(Head(calls).router)
          ELSE Head(calls).handlers) \o HandlersOf(Tail(calls))

\* The chains of up to MaxCalls such calls that register no handler twice.
MergingChains ==
    { cs \in SeqsUpTo(MergingOps, MaxCalls) :
        \A i, j \in 1..Len(HandlersOf(cs)) : HandlersOf(cs)[i] = HandlersOf(cs)[j] => i = j }

\* Applications that build their router out of merged and nested ones and
\* end in either split.
InitMerge ==
    /\ features \in {{}, {"tracing"}}
    /\ item = ItemFn(<<"h">>, <<>>, GoodReturn(<<"h">>))
    /\ meta_args = GoodMeta(GoodResponses)
    /\ Unstarted
    /\ \E cs \in MergingChains, split \in {"split_for_parts", "split_for_parts_with_private_doc"} :
          plan = ChainTo(cs, split)

\* Declarations whose item or arguments do not parse.
InitBroken ==
    /\ features = {"tracing", "unstable_extractor_attr"}
    /\ \E parses \in BOOLEAN :
         item = [ItemFn(<<"h">>, <<>>, GoodReturn(<<"h">>)) EXCEPT !.parses = parses]
    /\ \E method \in {Ident("GET"), Ident("POST"), Ident("FETCH"), Str("GET")},
          path \in {Str("/x"), Ident("x")},
          named \in { <<>>,
                      <<KeyVal("responses", List(GoodResponses))>>,
                      <<KeyVal("tags", List(<<Str("t")>>)), KeyVal("responses", List(GoodResponses))>>,
                      <<KeyVal("responses", List(GoodResponses)), KeyVal("responses", List(GoodResponses))>>,
                      <<KeyVal("unknown", List(<<>>))>> } :
         meta_args = MetaArgs(method, path, named)
    /\ Fresh

Init == InitResponses \/ InitParams \/ InitReturn \/ InitPatterns \/ InitBroken

Spec == Init /\ [][Next]_vars

SpecResponses == InitResponses /\ [][Next]_vars

SpecParams == InitParams /\ [][Next]_vars

SpecReturn == InitReturn /\ [][Next]_vars

SpecPatterns == InitPatterns /\ [][Next]_vars

SpecAttrs == InitAttrs /\ [][Next]_vars

SpecNamed == InitNamed /\ [][Next]_vars

SpecMeta == InitMeta /\ [][Next]_vars

SpecStatus == InitStatus /\ [][Next]_vars

SpecBodies == InitBodies /\ [][Next]_vars

SpecRouter == InitRouter /\ [][Next]_vars

SpecMerge == InitMerge /\ [][Next]_vars

SpecDocs == InitDocs /\ [][Next]_vars

SpecGenerics == InitGenerics /\ [][Next]_vars

SpecSites == InitSites /\ [][Next]_vars

SpecAttrLists == InitAttrLists /\ [][Next]_vars

(***************************************************************************)
(* What the declaration says, read off the tokens as written.              *)
(***************************************************************************)
\* The use recorded in call is of kind op.
Called(op) == call # Nothing /\ call.op = op

\* The entries of responses=[...] as written (the first named argument).
DeclaredEntries == meta_args.named[1].val.list

\* The catalog statuses a status token denotes.
DenotedStatus(t) ==
    IF t.kind = "int" THEN {sc \in HttpStatusCode : sc.code = t.num}
    ELSE {sc \in HttpStatusCode : t.kind = "ident" /\ sc.name = t.text}

\* Two entries of the list denote the same status.
SameStatusTwice ==
    \E i, j \in 1..Len(DeclaredEntries) :
        /\ i < j
        /\ DenotedStatus(DeclaredEntries[i].status) \cap DenotedStatus(DeclaredEntries[j].status) # {}

\* The expansion has got past the stage, or never got to it.
NotAccepted(stages) == stage \in stages \cup {"failed"}

\* A parameter as written is a payload consumer: a known body extractor, or
\* an unknown extractor whose attribute gives a content_type.
IsPayloadConsumer(fnarg) ==
    \/ fnarg.ty.name \in {"Json", "Body", "TypedMultipart"}
    \/ /\ fnarg.ty.name \notin {"Path", "Query"}
       /\ \E a \in 1..Len(fnarg.attrs) :
            /\ fnarg.attrs[a].path \in {"extractor", "autoroute_extractor"}
            /\ \E k \in 1..Len(fnarg.attrs[a].args) : fnarg.attrs[a].args[k].key.text = "content_type"

PayloadConsumers == {i \in 1..Len(item.inputs) : IsPayloadConsumer(item.inputs[i])}

(***************************************************************************)
(* Claims.                                                                 *)
(***************************************************************************)
\* C1: a responses list in which two entries denote the same status (two
\* numbers, two names, or a number and a name such as 200 and OK) is never
\* accepted: the expansion does not get past the responses enum stage.
C1_DuplicatedStatusRejected ==
    SameStatusTwice => NotAccepted({"start", "responses_enum"})

\* A declaration with 200 and OK has failed with 'duplicated status'.
C1_Witness ==
    /\ stage = "failed"
    /\ Len(DeclaredEntries) = 2
    /\ DeclaredEntries[1].status = IntLit(200)
    /\ DeclaredEntries[2].status = Ident("OK")
    /\ expansion.err.msg = "duplicated status"

\* C2: a handler with two or more payload consumers among its parameters,
\* wherever they stand, is never accepted: the expansion does not get past
\* the documentation stage.
C2_TwoPayloadConsumersRejected ==
    Cardinality(PayloadConsumers) >= 2 =>
        NotAccepted({"start", "responses_enum", "utoipa_path_meta"})

\* A known and an attributed payload consumer with a parameter between
\* them have failed on the second request body.
C2_Witness ==
    /\ stage = "failed"
    /\ PayloadConsumers = {1, 3}
    /\ item.inputs[1].ty.name = "Json"
    /\ item.inputs[3].ty.name = "Custom"
    /\ expansion.err.msg = "multiple extractors consuming the body are defined"

\* C3: in every handler the macro accepts, a payload consumer is the last
\* parameter.
C3_PayloadConsumerIsLast ==
    stage = "done" => \A i \in PayloadConsumers : i = Len(item.inputs)

\* C4: once the responses enum is generated it has one variant per entry of
\* the list, in the order written, each with the status its entry denotes,
\* no status twice; and a response for a status that was not declared
\* cannot be constructed, whichever way it is written.
C4_VariantsAreDeclaredStatuses ==
    /\ responses_enum # Nothing =>
         /\ Len(responses_enum.variants) = Len(DeclaredEntries)
         /\ \A i \in 1..Len(DeclaredEntries) :
              DenotedStatus(DeclaredEntries[i].status) =
                 {sc \in HttpStatusCode : sc.code = responses_enum.variants[i].status
                                          /\ sc.variant = responses_enum.variants[i].name}
         /\ \A i, j \in 1..Len(DeclaredEntries) :
              i # j => responses_enum.variants[i].status # responses_enum.variants[j].status
    /\ Called("respond") =>
         (ret.ok => \E i \in 1..Len(DeclaredEntries) :
                       call.status \in {sc.variant : sc \in DenotedStatus(DeclaredEntries[i].status)})

\* An enum of two variants has refused a response for a third status.
C4_Witness ==
    /\ Called("respond")
    /\ Len(responses_enum.variants) = 2
    /\ responses_enum.variants[1].status = 404
    /\ responses_enum.variants[2].status = 200
    /\ call.status = "ImATeapot"
    /\ ~ret.ok

\* What the direct variant makes of the status and payload in call.
DirectVariant ==
    AndThen(Construct(expansion.responses_enum, call.status, call.payload),
            LAMBDA value : into_response(expansion.responses_enum, value))

EntryOfCall ==
    DeclaredEntries[CHOOSE i \in 1..Len(DeclaredEntries) :
        call.status \in {sc.variant : sc \in DenotedStatus(DeclaredEntries[i].status)}]

\* C6: a response that goes on the wire carries the status its entry
\* declares; its body is the payload as JSON when the entry names no
\* serializer and the payload as it is when the entry says serializer=NONE.
C6_WireStatusAndBody ==
    Called("respond") /\ ret.ok =>
        /\ {ret.val.status} = {sc.code : sc \in DenotedStatus(EntryOfCall.status)}
        /\ EntryOfCall.named = <<>> =>
             ret.val.body = (IF call.payload.ty = "String"
                             THEN <<"\"">> \o Concat([i \in 1..Len(call.payload.chars) |->
                                        JsonEscape(call.payload.chars[i])]) \o <<"\"">>
                             ELSE Decimal(call.payload.num))
        /\ EntryOfCall.named # <<>> => ret.val.body = call.payload.chars

\* One declaration answered 8 as JSON with 201 and can answer a raw string
\* with 404.
C6_Witness ==
    /\ Called("respond")
    /\ ret.ok
    /\ Len(DeclaredEntries) = 2
    /\ DeclaredEntries[1].status = Ident("NOT_FOUND")
    /\ DeclaredEntries[1].named # <<>>
    /\ call.payload = U32Payload(8)
    /\ ret.val = [status |-> 201, content_type |-> "application/json", body |-> <<"8">>,
                  headers |-> <<>>]

\* The pattern of the handler's one parameter.
ThePattern == item.inputs[1].pat

Destructurings == {"struct", "tuple", "tuple_struct"}

\* C7: the bound variable of a plainly named parameter is its name, that of
\* a destructuring with exactly one field that is a name is that name;
\* a wildcard, a destructuring with no field or with two or more, and a
\* destructuring whose one field is a wildcard or a destructuring fail.
C7_DetectExtractorVar ==
    stage # "start" =>
        /\ ThePattern.kind = "ident" =>
             stage # "failed" /\ input.axum_extractors[1].extracted_var = ThePattern.ident
        /\ ThePattern.kind \in Destructurings /\ Len(ThePattern.sub) = 1
              /\ ThePattern.sub[1].kind = "ident" =>
             stage # "failed" /\ input.axum_extractors[1].extracted_var = ThePattern.sub[1].ident
        /\ ThePattern.kind = "wild" => stage = "failed" /\ expansion.err.msg = VarError
        /\ ThePattern.kind \in Destructurings /\ Len(ThePattern.sub) # 1 =>
             /\ stage = "failed"
             /\ expansion.err.msg = "unexpected destructuring pattern, should have a single element"
        /\ ThePattern.kind \in Destructurings /\ Len(ThePattern.sub) = 1
              /\ ThePattern.sub[1].kind # "ident" =>
             stage = "failed" /\ expansion.err.msg = VarError

\* A destructuring of two names has failed.
C7_Witness ==
    /\ stage = "failed"
    /\ ThePattern = Pat("tuple_struct", "", <<PatIdent("v"), PatIdent("w")>>)

\* The stages after the check of the return type.
AfterReturnType == {"extractor_attrs", "tracing", "quote", "done"}

\* The return type as written is the bare name of the responses enum.
WrittenIsEnumName ==
    item.output.kind = "ident" /\ item.output.ident = responses_enum.name

\* C8: the expansion gets past the return type only when the type written
\* is the bare identifier naming the responses enum; anything else fails
\* with 'expecting return type' and the name of the enum; the handler that
\* is emitted returns that identifier.
C8_ReturnTypeIsEnumName ==
    /\ stage \in AfterReturnType => WrittenIsEnumName
    /\ stage = "failed" =>
         /\ ~WrittenIsEnumName
         /\ expansion.err = [msg |-> "expecting return type", arg |-> responses_enum.name]
    /\ stage = "done" =>
         expansion.func.output = [kind |-> "ident", ident |-> responses_enum.name]

\* A handler returning the right name behind a path has been refused.
C8_Witness ==
    /\ stage = "failed"
    /\ item.ident = <<"a", "_", "b">>
    /\ item.output = [kind |-> "path", ident |-> <<"A", "B">> \o ResponsesSuffix]
    /\ expansion.err.arg = <<"A", "B">> \o ResponsesSuffix

\* C9: an expansion that failed, at whatever stage, consists of the
\* diagnostic alone; one that did not fail consists of the handler, the
\* responses enum, the documentation, the trait checkers and the RouteInfo
\* constant together; nothing is emitted before the end.
C9_AllOrNothing ==
    /\ stage = "failed" =>
         /\ expansion.kind = "compile_error"
         /\ DOMAIN expansion = {"kind", "prefix", "err"}
    /\ stage = "done" =>
         /\ expansion.kind = "items"
         /\ DOMAIN expansion = {"kind", "utoipa_path_meta", "func", "responses_enum",
                                "trait_checkers", "route_info"}
         /\ expansion.func.ident = item.ident
         /\ expansion.responses_enum = responses_enum /\ responses_enum # Nothing
         /\ expansion.utoipa_path_meta = utoipa_path_meta /\ utoipa_path_meta # Nothing
         /\ expansion.trait_checkers = trait_checkers
         /\ expansion.route_info = route_info /\ route_info # Nothing
    /\ stage \notin {"failed", "done"} => expansion = Nothing

\* An expansion has failed at the return type, after the enum, the
\* documentation and the constant were generated.
C9_Witness ==
    /\ stage = "failed"
    /\ responses_enum # Nothing
    /\ utoipa_path_meta # Nothing
    /\ route_info # Nothing
    /\ expansion.err.msg = "expecting return type"

\* C10: route_info!(q::h) names, behind the same prefix q, the constant
\* generated for h, whose method() is the method declared and whose path()
\* is the path template as declared, at every read.
C10_RouteInfoRead ==
    Called("route_info") =>
        /\ ret.ok
        /\ Len(ret.val.const) = Len(call.path)
        /\ SubSeq(ret.val.const, 1, Len(call.path) - 1) = SubSeq(call.path, 1, Len(call.path) - 1)
        /\ call.path[Len(call.path)] = item.ident
        /\ ret.val.const[Len(call.path)] = expansion.route_info.name
        /\ ret.val.method = meta_args.method.text
        /\ ret.val.path = meta_args.path.text

\* The last read allowed, behind a prefix of two segments, of a POST route.
C10_Witness ==
    /\ Called("route_info")
    /\ reads = MaxReads
    /\ Len(call.path) = 3
    /\ ret.ok
    /\ ret.val.method = "POST"
    /\ ret.val.path = "/x"

\* The one parameter of the handler as written, and its extractor attribute
\* arguments (none when it has no attribute).
TheSite == item.inputs[1]

TheAttrArgs == IF TheSite.attrs = <<>> THEN <<>> ELSE TheSite.attrs[1].args

\* The positions of the attribute arguments written with the key.
ArgsWithKey(key) == {k \in 1..Len(TheAttrArgs) : TheAttrArgs[k].key.text = key}

\* The value of the trace= written last.
WrittenTrace ==
    TheAttrArgs[CHOOSE k \in ArgsWithKey("trace") : \A m \in ArgsWithKey("trace") : m <= k].val.text = "true"

\* The block of the handler has an entry trace line for the variable.
HasEntryLine(block, var) ==
    \E i \in 1..Len(block) : block[i].kind = "debug" /\ block[i].msg = "* {}: {:?}" /\ block[i].var = var

\* C11: the effective trace flag of a site of a known kind is the trace=
\* value of its attribute when it has one and true otherwise, so that the
\* emitted handler has no entry trace line for a known extractor declared
\* with trace=false.
C11_KnownTraceFlag ==
    TheSite.ty.name \in KnownNames =>
        /\ stage \notin {"start", "failed"} =>
             to_trace(input.axum_extractors[1]) =
                (IF ArgsWithKey("trace") # {} THEN WrittenTrace ELSE TRUE)
        /\ stage = "done" /\ ArgsWithKey("trace") # {} /\ ~WrittenTrace =>
             ~HasEntryLine(expansion.func.block, "v")

\* The sites of the handler whose effective trace flag is true, and the
\* number of them among the first i parameters.
TracedSites == {i \in 1..Len(input.axum_extractors) : to_trace(input.axum_extractors[i])}

TracedUpTo(i) == Cardinality({j \in TracedSites : j <= i})

\* The lines are those of the entry of the handler: the line naming it, then
\* for each traced site, in parameter order, the line of its extractor and
\* variable, and nothing else.
IsEntryTrace(lines) ==
    /\ Len(lines) = 1 + Cardinality(TracedSites)
    /\ lines[1].msg = "triggered" /\ lines[1].handler = item.ident
    /\ \A i \in TracedSites :
         /\ lines[1 + TracedUpTo(i)].msg = "* {}: {:?}"
         /\ lines[1 + TracedUpTo(i)].label = item.inputs[i].ty.name
         /\ lines[1 + TracedUpTo(i)].var = input.axum_extractors[i].extracted_var

TraceValuesOfCall ==
    {EntryOfCall.named[k].val.text : k \in {m \in 1..Len(EntryOfCall.named) :
                                               EntryOfCall.named[m].key.text = "trace"}}

\* The lines of the invocation after those of its entry.
ReturnTrace == SubSeq(log, 2 + Cardinality(TracedSites), Len(log))

\* C13: with tracing, a response that a handler produces is traced, after
\* the entry lines of the invocation, with one 'finished' line carrying the
\* code and the name of the status returned; the payload line follows it
\* when the entry of that status writes no trace= or trace=true, and does
\* not when it writes trace=false; nothing else is traced.
C13_ReturnTrace ==
    Tracing /\ Called("respond") /\ ret.ok =>
        /\ IsEntryTrace(SubSeq(log, 1, 1 + Cardinality(TracedSites)))
        /\ Len(ReturnTrace) \in {1, 2}
        /\ ReturnTrace[1].msg = "finished"
        /\ ReturnTrace[1].handler = item.ident
        /\ \E sc \in HttpStatusCode :
             /\ sc.variant = call.status
             /\ ReturnTrace[1].code = sc.code
             /\ ReturnTrace[1].name = sc.name
        /\ Len(ReturnTrace) = 2 =>
             ReturnTrace[2].msg = "* Response: {:?}" /\ ReturnTrace[2].var = call.payload
        /\ TraceValuesOfCall \subseteq {"true"} => Len(ReturnTrace) = 2
        /\ TraceValuesOfCall = {"false"} => Len(ReturnTrace) = 1

\* A response declared with trace=false has been returned: the line of its
\* status is traced, its payload is not.
C13_Witness ==
    /\ Tracing
    /\ Called("respond")
    /\ ret.ok
    /\ call.status = "Ok"
    /\ DeclaredEntries[1].named = <<KeyVal("description", Str("d")), KeyVal("trace", Bool(FALSE))>>
    /\ Len(log) = 2
    /\ log[2].msg = "finished" /\ log[2].code = 200 /\ log[2].name = "OK"

\* A response entry writes one of its named fields twice or more.
RepeatsNamedField(entry) ==
    \E k, m \in 1..Len(entry.named) :
        /\ k < m
        /\ entry.named[k].key.text \in AutorouteResponseKey
        /\ entry.named[k].key.text = entry.named[m].key.text

\* C17: a response entry that repeats a named field (content_type,
\* serializer, headers, description or trace) is rejected: the expansion
\* does not get past the parsing of the arguments.
C17_RepeatedNamedFieldRejected ==
    (\E i \in 1..Len(DeclaredEntries) : RepeatsNamedField(DeclaredEntries[i])) =>
        NotAccepted({"start"})

\* C14: an extractor attribute that holds both content_type and
\* into_params does not parse, whichever comes first, whatever the value of
\* into_params and whatever stands between them: the declaration is
\* rejected, with the unstable keys enabled on the ground that the one
\* cannot be defined in an attribute containing the other.
C14_ContentTypeAndIntoParamsRejected ==
    ArgsWithKey("content_type") # {} /\ ArgsWithKey("into_params") # {} =>
        /\ NotAccepted({"start"})
        /\ stage = "failed" /\ Unstable =>
             expansion.err.msg \in
                {"into_params cannot be defined in an extractor attribute containing content_type",
                 "content_type cannot be defined in an extractor attribute containing into_params"}

\* content_type, then trace, then into_params=false on an unknown extractor
\* has been rejected.
C14_Witness ==
    /\ stage = "failed"
    /\ Unstable
    /\ TheSite.ty.name = "Custom"
    /\ TheAttrArgs = <<KeyVal("content_type", Str("text/plain")), KeyVal("trace", Bool(TRUE)),
                       KeyVal("into_params", Bool(FALSE))>>
    /\ expansion.err.msg = "into_params cannot be defined in an extractor attribute containing content_type"

\* What a known extractor documents and requires, by its name alone: the
\* content types and content of its request body (none for Path and Query),
\* its parameters, and the trait its checker is bounded by.
KnownRequestBody(name) ==
    CASE name = "Json" -> Some([content |-> InnerTy, content_types |-> <<"application/json">>])
      [] name = "Body" ->
            Some([content |-> Ty("other", "[u8]", <<>>), content_types |-> <<"application/octet-stream">>])
      [] name = "TypedMultipart" ->
            Some([content |-> InnerTy, content_types |-> <<"multipart/form-data">>])
      [] OTHER -> NoRequestBody

KnownParams(name) == IF name \in {"Path", "Query"} THEN <<InnerTy>> ELSE <<>>

KnownBound(name) == IF name \in {"Path", "Query"} THEN "FromRequestParts" ELSE "FromRequest"

\* C15: a site of a known kind whose attribute writes content_type or
\* into_params is rejected; with no attribute or with trace= alone it is
\* accepted, and its request body, its parameters and the trait required of
\* it are those of its kind, the same whatever the attribute.
C15_KnownExtractorOverridesRejected ==
    TheSite.ty.name \in KnownNames =>
        /\ ArgsWithKey("content_type") \cup ArgsWithKey("into_params") # {} => NotAccepted({"start"})
        /\ ArgsWithKey("content_type") \cup ArgsWithKey("into_params") = {} =>
             /\ stage # "failed"
             /\ utoipa_path_meta # Nothing =>
                  /\ utoipa_path_meta.request_body = KnownRequestBody(TheSite.ty.name)
                  /\ utoipa_path_meta.params = KnownParams(TheSite.ty.name)
             /\ stage \in {"route_info", "return_type", "extractor_attrs", "tracing", "quote", "done"} =>
                  trait_checkers[1].bound = KnownBound(TheSite.ty.name)

\* A Query written with content_type has been rejected by validate.
C15_Witness ==
    /\ stage = "failed"
    /\ Unstable
    /\ TheSite.ty.name = "Query"
    /\ TheAttrArgs = <<KeyVal("content_type", Str("text/plain"))>>
    /\ expansion.err.msg = "content_type cannot be defined on a known extractor type (Json, Body, TypedMultipart, Path, Query)"

\* The named arguments as written, less a trailing comma.
WrittenFields ==
    IF meta_args.named # <<>> /\ meta_args.named[Len(meta_args.named)] = OnlyComma
    THEN SubSeq(meta_args.named, 1, Len(meta_args.named) - 1)
    ELSE meta_args.named

\* The positions of the named arguments written with the name.
FieldsNamed(name) ==
    {k \in 1..Len(WrittenFields) :
        WrittenFields[k].key.kind = "ident" /\ WrittenFields[k].key.text = name}

\* The arguments are a method, then path=<string>, then named arguments
\* that are each responses=[...] or tags=[...], responses once and with at
\* least one entry, tags at most once.
WellFormedArguments ==
    /\ meta_args.method.kind = "ident" /\ meta_args.method.text \in HttpMethod
    /\ meta_args.path_key = Ident("path")
    /\ meta_args.path.kind = "str"
    /\ FieldsNamed("responses") \cup FieldsNamed("tags") = 1..Len(WrittenFields)
    /\ \A k \in 1..Len(WrittenFields) : WrittenFields[k].val.kind = "list"
    /\ Cardinality(FieldsNamed("responses")) = 1
    /\ Cardinality(FieldsNamed("tags")) <= 1
    /\ \A k \in FieldsNamed("responses") : WrittenFields[k].val.list # <<>>

\* C16: the arguments of the attribute are accepted exactly when they are a
\* method, then path=<string>, then named arguments each of which is
\* responses=[...] or tags=[...], each at most once, responses being there
\* with at least one entry, a trailing comma allowed; anything else (no
\* method, no path, the two out of order, an unknown name, a repeated
\* name, no responses or an empty one) is rejected; what is accepted keeps
\* the method and the path written.
C16_RouteArguments ==
    stage # "start" =>
        /\ stage = "failed" <=> ~WellFormedArguments
        /\ stage # "failed" =>
             /\ input.meta.method = meta_args.method.text
             /\ input.meta.path = meta_args.path.text

\* tags, responses and tags again have been rejected, and so has a
\* declaration without a method.
C16_Witness ==
    /\ stage = "failed"
    /\ meta_args.method = Ident("POST")
    /\ meta_args.path_key = Ident("path")
    /\ meta_args.path = Str("/x")
    /\ meta_args.named = <<KeyVal("tags", List(<<Str("t")>>)), KeyVal("responses", List(GoodResponses)),
                            KeyVal("tags", List(<<>>))>>
    /\ expansion.err.msg = "tags already defined"

\* The status token of the one response.
TheStatus == DeclaredEntries[1].status

\* C18: the status of a response is accepted exactly when it is a number
\* that is a code of the catalog or the upper-snake name of an entry of the
\* catalog, and it is then the status of that entry, the same for the code
\* and for the name; an unassigned number, a name in another case, a
\* qualified path and a string literal are rejected.
C18_StatusAccepted ==
    stage # "start" =>
        /\ stage # "failed" <=>
              \/ TheStatus.kind = "int" /\ \E sc \in HttpStatusCode : sc.code = TheStatus.num
              \/ TheStatus.kind = "ident" /\ \E sc \in HttpStatusCode : sc.name = TheStatus.text
        /\ stage # "failed" =>
             \A sc \in HttpStatusCode :
                (sc.code = TheStatus.num \/ sc.name = TheStatus.text) =>
                    /\ input.meta.responses[1].status_code = sc.variant
                    /\ as_code(input.meta.responses[1].status_code) = sc.code
        /\ stage = "failed" =>
             expansion.err.msg \in {StatusError, "number too large to fit in target type"}

\* The PascalCase name of a catalog entry has been rejected.
C18_Witness ==
    /\ stage = "failed"
    /\ TheStatus = Ident("NotFound")
    /\ expansion.err.msg = StatusError

\* The type written after body= in the one response.
TheBody == DeclaredEntries[1].body

\* C19: of a body= tuple of n >= 1 elements the parts are the first n-1
\* elements in order and the body is the last, so that the parts followed
\* by the body are the tuple written; a type in parentheses is the body
\* itself with no parts, a tuple in parentheses being a body that is a
\* tuple; any other type is the body with no parts.
C19_BodyAndParts ==
    stage # "start" =>
        /\ TheBody.kind = "tuple" /\ Len(TheBody.args) >= 1 =>
             /\ stage # "failed"
             /\ Len(input.meta.responses[1].parts) = Len(TheBody.args) - 1
             /\ input.meta.responses[1].body = TheBody.args[Len(TheBody.args)]
             /\ input.meta.responses[1].parts \o <<input.meta.responses[1].body>> = TheBody.args
        /\ TheBody.kind = "paren" =>
             /\ stage # "failed"
             /\ input.meta.responses[1].body = TheBody.args[1]
             /\ input.meta.responses[1].parts = <<>>
        /\ TheBody.kind \notin {"tuple", "paren"} =>
             /\ stage # "failed"
             /\ input.meta.responses[1].body = TheBody
             /\ input.meta.responses[1].parts = <<>>

\* ((A, B)) has been split into the body (A, B) and no parts.
C19_Witness ==
    /\ stage = "done"
    /\ TheBody = TyParen(TyTuple(<<TyPath("A"), TyPath("B")>>))
    /\ input.meta.responses[1].body = TyTuple(<<TyPath("A"), TyPath("B")>>)
    /\ input.meta.responses[1].parts = <<>>

\* The routes the chain registers through the builder method op.
RegisteredBy(op) ==
    UNION { { method_router(plan.calls[i].handlers[j]) : j \in 1..Len(plan.calls[i].handlers) } :
              i \in { k \in 1..Len(plan.calls) : plan.calls[k].op = op } }

\* After split_for_parts the routes registered through op are private:
\* served by the router and absent from the OpenApi documentation.
PrivateAfterSplit(op) ==
    parts # Nothing =>
        \A r \in RegisteredBy(op) : r \in parts.router /\ r \notin parts.doc

\* with_priv_route registers a private route.
PrivRouteIsPrivate == PrivateAfterSplit("with_priv_route")

\* Some route registered through with_priv_route has been split: it is
\* served and undocumented.
PrivRouteSplit ==
    /\ parts # Nothing
    /\ \E r \in RegisteredBy("with_priv_route") : r \in parts.router /\ r \notin parts.doc

\* C20: the routes registered through with_priv_routes are private as the
\* ones registered through with_priv_route are: after split_for_parts each
\* is served by the router and absent from the OpenApi documentation.
C20_PrivRoutesArePrivate == PrivateAfterSplit("with_priv_routes")

RECURSIVE Added(_, _)
\* The routes a sequence of builder calls adds with the visibility vis
\* ("pub" or "priv"), those of merged routers as they are and those of
\* nested routers under the path.
Added(calls, vis) ==
    IF calls = <<>> THEN {}
    ELSE LET c == Head(calls) IN
         (CASE c.op \in {"with_pub_route", "with_pub_routes"} ->
                  IF vis = "pub" THEN { method_router(c.handlers[i]) : i \in 1..Len(c.handlers) } ELSE {}
            [] c.op = "with_priv_route" ->
                  IF vis = "priv" THEN { method_router(c.handlers[1]) } ELSE {}
            [] c.op = "merge" -> Added(c.router, vis)
            [] c.op = "nest"  -> Nested(c.path, Added(c.router, vis))
            [] OTHER -> {})
         \cup Added(Tail(calls), vis)

\* C21: after a chain of with_pub_route, with_pub_routes, with_priv_route,
\* merge and nest calls, split_for_parts returns a router that serves every
\* route added, public and private, those of merged and nested routers
\* included, and a documentation of exactly the public ones;
\* split_for_parts_with_private_doc returns the same served routes and a
\* documentation of all of them.
C21_SplitServesAllDocumentsPublic ==
    parts # Nothing /\ (\A i \in 1..Len(plan.calls) : plan.calls[i].op # "with_priv_routes") =>
        /\ parts.router = Added(plan.calls, "pub") \cup Added(plan.calls, "priv")
        /\ plan.split = "split_for_parts" => parts.doc = Added(plan.calls, "pub")
        /\ plan.split = "split_for_parts_with_private_doc" =>
             parts.doc = Added(plan.calls, "pub") \cup Added(plan.calls, "priv")

\* split_for_parts has been called on a router that merged a router with a
\* public and a private route and holds a private route of its own: the
\* three are served and one is documented.
C21_Witness ==
    /\ parts # Nothing
    /\ plan.split = "split_for_parts"
    /\ \E i \in 1..Len(plan.calls) : plan.calls[i].op = "merge"
    /\ \E i \in 1..Len(plan.calls) : plan.calls[i].op = "with_priv_route"
    /\ Cardinality(parts.router) = 3
    /\ Cardinality(parts.doc) = 1
    /\ Added(plan.calls, "priv") \cap parts.router # {}

\* split_for_parts_with_private_doc has been called on a router that
\* nested a router with a private route: the route is served and
\* documented under the path.
C21_WitnessPrivateDoc ==
    /\ parts # Nothing
    /\ plan.split = "split_for_parts_with_private_doc"
    /\ \E r \in parts.doc : r \in Added(plan.calls, "priv") /\ r.path = "/n/g"

\* The parsed response that declares the status in call.
ResponseOfCall ==
    input.meta.responses[CHOOSE i \in 1..Len(input.meta.responses) :
        input.meta.responses[i].status_code = call.status]

\* The headers of the parts returned in call, in order.
ReturnedHeaders == Concat([i \in 1..Len(call.payload.parts) |-> call.payload.parts[i].headers])

\* The content type the body gives the response: that of its serializer.
BodyContentType ==
    CASE ResponseOfCall.serializer.kind = "Default" -> "application/json"
      [] ResponseOfCall.serializer.kind = "None"    -> "text/plain; charset=utf-8"
      [] OTHER -> ""

C22_WitnessParts ==
    /\ Called("respond")
    /\ ret.ok
    /\ ResponseOfCall.content_type = Some("application/pdf")
    /\ ret.val.content_type = "text/plain"
    /\ ret.val.headers = <<[name |-> "content-disposition", value |-> "attachment"]>>

\* The value of the into_params= written last.
WrittenIntoParams ==
    TheAttrArgs[CHOOSE k \in ArgsWithKey("into_params") :
                    \A m \in ArgsWithKey("into_params") : m <= k].val.text = "true"

\* The trace flag the attribute arguments of an unknown extractor give.
UnknownTraceFlag ==
    IF ArgsWithKey("trace") # {} THEN WrittenTrace
    ELSE \/ ArgsWithKey("into_params") # {} /\ WrittenIntoParams
         \/ ArgsWithKey("content_type") # {}

\* C23: the effective trace flag of a site of unknown kind is the trace=
\* value when one is written; otherwise it is true exactly when the site
\* declares into_params=true or at least one content_type, and false with
\* no attribute or with into_params=false (of a key written several times
\* the value written last counts).  The emitted handler has an entry trace
\* line for the site exactly when the flag is true.
C23_UnknownTraceFlag ==
    TheSite.ty.name = "Custom" =>
        /\ stage \notin {"start", "failed"} =>
             to_trace(input.axum_extractors[1]) = UnknownTraceFlag
        /\ stage = "done" => (HasEntryLine(expansion.func.block, "v") <=> UnknownTraceFlag)

\* An unknown extractor declared with into_params=true and no trace= is
\* traced on entry.
C23_Witness ==
    /\ stage = "done"
    /\ TheSite.ty.name = "Custom"
    /\ TheAttrArgs = <<KeyVal("into_params", Bool(TRUE))>>
    /\ to_trace(input.axum_extractors[1])
    /\ HasEntryLine(expansion.func.block, "v")

\* An unknown extractor without attribute is not traced.
C23_WitnessUntraced ==
    /\ stage = "done"
    /\ TheSite.ty.name = "Custom"
    /\ TheSite.attrs = <<>>
    /\ ~HasEntryLine(expansion.func.block, "v")

\* The generic arguments written on the type of the one parameter.
TheGenerics == TheSite.ty.args

C24_WitnessNonGeneric ==
    /\ stage = "done"
    /\ TheSite.ty = TyPath("Custom")
    /\ input.axum_extractors[1].extracted_ty = TyPath("Custom")

\* The orders a sequence can be written in.
Orders(seq) == { [i \in 1..Len(seq) |-> seq[p[i]]] : p \in Permutations(1..Len(seq)) }

\* The arguments with the named fields of the first response in the order
\* given.
WithResponseFields(named) == [meta_args EXCEPT !.named[1].val.list[1].named = named]

\* The order of the route-level named arguments does not matter: written in
\* any order they parse to the declaration parsed.
RouteLevelOrderIndependent ==
    stage \notin {"start", "failed"} =>
        \A named \in Orders(WrittenFields) :
            ParseMeta([meta_args EXCEPT !.named = named]) = Ok(input.meta)

\* The named fields of the first response as written have no key twice.
NoRepeatedField == ~RepeatsNamedField(DeclaredEntries[1])

\* Without a repeated key the order of the named fields of a response does
\* not matter.
EntryOrderIndependentWithoutRepeats ==
    stage \notin {"start", "failed"} /\ NoRepeatedField =>
        \A named \in Orders(DeclaredEntries[1].named) :
            ParseMeta(WithResponseFields(named)) = Ok(input.meta)

\* C25: the parsed declaration does not depend on the order of the named
\* fields: tags and responses at route level, or the named fields of a
\* response entry, written in any other order parse to the same method,
\* path, tags and responses.
C25_OrderIndependent ==
    stage \notin {"start", "failed"} =>
        /\ \A named \in Orders(WrittenFields) :
              ParseMeta([meta_args EXCEPT !.named = named]) = Ok(input.meta)
        /\ \A named \in Orders(DeclaredEntries[1].named) :
              ParseMeta(WithResponseFields(named)) = Ok(input.meta)

\* The extractor attribute arguments that decide: those of the first
\* extractor attribute of the parameter, none without one.
DecidingArgs(fnarg) ==
    LET at == SelectSeq(fnarg.attrs, as_extractor_attr) IN
    IF at = <<>> THEN <<>> ELSE at[1].args

\* The content types written on a parameter, one per content_type= and in
\* the order written.
WrittenContentTypes(fnarg) ==
    LET cts == SelectSeq(DecidingArgs(fnarg), LAMBDA a : a.key.text = "content_type") IN
    [k \in 1..Len(cts) |-> parse_mime(cts[k].val).val]

\* The content types of the request body a payload consumer documents.
DocumentedContentTypes(fnarg) ==
    CASE fnarg.ty.name = "Json"           -> <<"application/json">>
      [] fnarg.ty.name = "Body"           -> <<"application/octet-stream">>
      [] fnarg.ty.name = "TypedMultipart" -> <<"multipart/form-data">>
      [] OTHER                            -> WrittenContentTypes(fnarg)

\* C26: the documentation entry has a request body if and only if the
\* handler has a payload-consuming site; its content types are those of the
\* kind for Json, Body and TypedMultipart, and for an unknown extractor the
\* content_type values written on the site, one per content_type= and in
\* the order written.
C26_RequestBodyDocumented ==
    utoipa_path_meta # Nothing =>
        /\ utoipa_path_meta.request_body.some <=> PayloadConsumers # {}
        /\ \A i \in PayloadConsumers :
              utoipa_path_meta.request_body.v.content_types = DocumentedContentTypes(item.inputs[i])

\* An unknown extractor written with two content types after a Path: the
\* request body documents both, in the order written.
C26_Witness ==
    /\ stage = "done"
    /\ Len(item.inputs) = 2
    /\ item.inputs[1].ty.name = "Path"
    /\ item.inputs[2].ty.name = "Custom"
    /\ utoipa_path_meta.request_body.some
    /\ utoipa_path_meta.request_body.v.content_types = <<"application/json", "application/pdf">>

\* The value of the into_params= that decides for the parameter: the one
\* written last in its deciding attribute, false when none is written.
DecidingIntoParams(fnarg) ==
    LET ips == SelectSeq(DecidingArgs(fnarg), LAMBDA a : a.key.text = "into_params") IN
    ips # <<>> /\ ips[Len(ips)].val.text = "true"

\* A parameter as written is documented as a parameter: a Path, a Query, or
\* an unknown extractor with into_params=true.
IsDocumentedParam(fnarg) ==
    \/ fnarg.ty.name \in {"Path", "Query"}
    \/ fnarg.ty.name \notin KnownNames /\ DecidingIntoParams(fnarg)

\* An unknown extractor with no attribute, with trace= alone or with
\* into_params=false.
IsUndocumentedUnknown(fnarg) ==
    /\ fnarg.ty.name \notin KnownNames
    /\ ~DecidingIntoParams(fnarg)
    /\ \A k \in 1..Len(DecidingArgs(fnarg)) : DecidingArgs(fnarg)[k].key.text # "content_type"

\* C27: the documentation parameters are the inner types of the sites that
\* are Path or Query extractors or unknown extractors with
\* into_params=true, in parameter order; a handler whose sites are all
\* unknown extractors with no attribute, with trace= alone or with
\* into_params=false documents no parameter and no request body, and no
\* such site is the one a request body comes from.
C27_ParamsDocumented ==
    utoipa_path_meta # Nothing =>
        /\ utoipa_path_meta.params =
              (LET documented == SelectSeq(item.inputs, IsDocumentedParam) IN
               [k \in 1..Len(documented) |-> documented[k].ty.args[1]])
        /\ utoipa_path_meta.request_body.some =>
              \E i \in 1..Len(item.inputs) :
                  /\ ~IsUndocumentedUnknown(item.inputs[i])
                  /\ ~IsDocumentedParam(item.inputs[i])
                  /\ utoipa_path_meta.request_body.v.content = item.inputs[i].ty.args[1]

\* Query<B> then an unknown extractor with into_params=true: the
\* parameters are B then E.
C27_Witness ==
    /\ stage = "done"
    /\ item.inputs = <<Site("Query", "B", <<>>), Site("Custom", "E", <<KeyVal("into_params", Bool(TRUE))>>)>>
    /\ utoipa_path_meta.params = <<TyPath("B"), TyPath("E")>>
    /\ ~utoipa_path_meta.request_body.some

\* Two unknown extractors, one without attribute and one with
\* into_params=false: nothing is documented.
C27_WitnessUndocumented ==
    /\ stage = "done"
    /\ item.inputs = <<Site("Custom", "C", <<>>), Site("Custom", "F", <<KeyVal("into_params", Bool(FALSE))>>)>>
    /\ utoipa_path_meta.params = <<>>
    /\ ~utoipa_path_meta.request_body.some

\* The values written for the key in a response entry, in the order written.
FieldValues(entry, key) ==
    LET fs == SelectSeq(entry.named, LAMBDA f : f.key.text = key) IN
    [k \in 1..Len(fs) |-> fs[k].val]

\* The body type of an entry as written: the last element of a tuple, the
\* type inside parentheses, or the type itself.
WrittenBody(entry) ==
    CASE entry.body.kind = "tuple" -> entry.body.args[Len(entry.body.args)]
      [] entry.body.kind = "paren" -> entry.body.args[1]
      [] OTHER -> entry.body

\* The header documented for one written (SYMBOL) or (SYMBOL, "text").
WrittenHeader(h) ==
    [header_name |-> (CHOOSE kh \in KnownHttpHeaders : kh.symbol = h.name.text).name,
     description |-> IF h.description = NoTok THEN None("") ELSE Some(h.description.text)]

\* C28: the documentation entry of an accepted declaration lists one
\* response per declared response, in the order declared, each with the
\* status of its response, with its body type (the last element of a
\* tuple, never the parts), and with a content type, a description and
\* headers exactly when the response declares them.
C28_ResponsesDocumented ==
    utoipa_path_meta # Nothing =>
        /\ Len(utoipa_path_meta.responses) = Len(DeclaredEntries)
        /\ \A i \in 1..Len(DeclaredEntries) :
              LET e   == DeclaredEntries[i]
                  d   == utoipa_path_meta.responses[i]
                  cts == FieldValues(e, "content_type")
                  ds  == FieldValues(e, "description")
                  hs  == FieldValues(e, "headers")
              IN /\ {d.status} = {sc.name : sc \in DenotedStatus(e.status)}
                 /\ d.body = WrittenBody(e)
                 /\ d.content_type = (IF cts = <<>> THEN None("")
                                      ELSE Some(parse_mime(cts[Len(cts)]).val))
                 /\ d.description = (IF ds = <<>> THEN None("") ELSE Some(ds[Len(ds)].text))
                 /\ d.headers = (IF hs = <<>> THEN <<>>
                                 ELSE [k \in 1..Len(hs[Len(hs)].list) |->
                                          WrittenHeader(hs[Len(hs)].list[k])])

\* Two responses are documented in order: 200 returning (HeaderMap, String)
\* with a content type and two headers, its body String alone and no
\* description; then 404 with its description only.
C28_Witness ==
    /\ stage = "done"
    /\ Len(utoipa_path_meta.responses) = 2
    /\ utoipa_path_meta.responses[1].status = "OK"
    /\ DeclaredEntries[1].body = TyTuple(<<TyPath("HeaderMap"), TyPath("String")>>)
    /\ utoipa_path_meta.responses[1].body = TyPath("String")
    /\ utoipa_path_meta.responses[1].content_type = Some("application/pdf")
    /\ utoipa_path_meta.responses[1].description = None("")
    /\ utoipa_path_meta.responses[1].headers =
          <<[header_name |-> "set-cookie", description |-> Some("c")],
            [header_name |-> "content-encoding", description |-> None("")]>>
    /\ utoipa_path_meta.responses[2] =
          [status |-> "NOT_FOUND", body |-> TyPath("u32"), content_type |-> None(""),
           description |-> Some("e"), headers |-> <<>>]

\* The expansion has generated the trait checkers.
TraitCheckersDeclared ==
    stage \in {"route_info", "return_type", "extractor_attrs", "tracing", "quote", "done"}

\* C29: every site is a metadata consumer or a payload consumer, never
\* both or neither, and the synthesizers agree on which: the trait check of
\* a site requires FromRequest if and only if the request body documented
\* is the one of that site, and requires FromRequestParts otherwise.
C29_OneClassification ==
    TraitCheckersDeclared =>
        /\ Len(trait_checkers) = Len(item.inputs)
        /\ \A i \in 1..Len(item.inputs) :
              /\ trait_checkers[i].bound \in {"FromRequest", "FromRequestParts"}
              /\ trait_checkers[i].bound = "FromRequest" <=>
                    /\ utoipa_path_meta.request_body.some
                    /\ utoipa_path_meta.request_body.v.content = item.inputs[i].ty.args[1]
              /\ trait_checkers[i].bound = "FromRequest" <=> is_parts_extractor(input.axum_extractors[i]) = FALSE
              /\ trait_checkers[i].bound = "FromRequest" <=> IsPayloadConsumer(item.inputs[i])

\* A Query and an unknown extractor with a content type: the first is
\* checked for FromRequestParts, the second for FromRequest and is the
\* request body documented.
C29_Witness ==
    /\ stage = "done"
    /\ item.inputs = <<Site("Query", "B", <<>>), Site("Custom", "G", <<KeyVal("content_type", Str("text/plain"))>>)>>
    /\ trait_checkers[1].bound = "FromRequestParts"
    /\ trait_checkers[2].bound = "FromRequest"
    /\ utoipa_path_meta.request_body.v.content = TyPath("G")
    /\ utoipa_path_meta.params = <<TyPath("B")>>

\* The extractor attributes have been removed from the handler.
ExtractorAttrsRemoved == stage \in {"tracing", "quote", "done"}

\* C30: in the emitted handler no parameter carries an extractor attribute
\* (#[extractor(..)] or #[autoroute_extractor(..)]), however many it had;
\* its other attributes, in their order, its pattern and its type are the
\* ones written, and the parameters are in the order written.  The
\* overrides of a site are the ones of the first extractor attribute of its
\* parameter, the default ones without such an attribute.
C30_ExtractorAttrsRemoved ==
    /\ ExtractorAttrsRemoved =>
         /\ Len(input.itemfn.inputs) = Len(item.inputs)
         /\ \A i \in 1..Len(item.inputs) :
               /\ \A k \in 1..Len(input.itemfn.inputs[i].attrs) :
                     ~(/\ input.itemfn.inputs[i].attrs[k].is_list
                       /\ input.itemfn.inputs[i].attrs[k].path \in {"extractor", "autoroute_extractor"})
               /\ input.itemfn.inputs[i].attrs =
                     SelectSeq(item.inputs[i].attrs,
                               LAMBDA a : ~(a.is_list /\ a.path \in {"extractor", "autoroute_extractor"}))
               /\ input.itemfn.inputs[i].pat = item.inputs[i].pat
               /\ input.itemfn.inputs[i].ty = item.inputs[i].ty
    /\ stage = "done" => expansion.func.inputs = input.itemfn.inputs
    /\ stage \notin {"start", "failed"} =>
         \A i \in 1..Len(item.inputs) :
             Ok(input.axum_extractors[i].attr) =
                 ParseExtractorAttr(DecidingArgs(item.inputs[i]), ExtractorAttrDefault)

\* A parameter written with #[extractor(trace = false)] and
\* #[autoroute_extractor(trace = true)] is emitted without attributes and its
\* site is not traced; the #[allow] of the other parameter is kept.
C30_Witness ==
    /\ stage = "done"
    /\ item.inputs[2].attrs = <<Attr("extractor", <<KeyVal("trace", Bool(FALSE))>>),
                                Attr("autoroute_extractor", <<KeyVal("trace", Bool(TRUE))>>)>>
    /\ expansion.func.inputs[2].attrs = <<>>
    /\ expansion.func.inputs[1].attrs = <<Attr("allow", <<>>)>>
    /\ input.axum_extractors[2].attr.do_trace = Some(FALSE)

====
